---- MODULE Spec2Model ----
(***************************************************************************)
(* A model of the topos geometry kernel: the mesh generators               *)
(* (topos/core/generators.py), the Geometry/Mesh container                 *)
(* (topos/core/geometry.py), the vertex arrays (topos/core/vertices.py)    *)
(* and the vertex transforms (topos/core/transforms.py).                   *)
(*                                                                         *)
(* Numbers.  Coordinates are floats in the program.  Here a coordinate is  *)
(* an integer count of 1/Unit, and an angle an integer count of           *)
(* 2*pi/Unit, where Unit is divisible by every divisor linspace uses      *)
(* within the bounds, so that every grid value is represented exactly.     *)
(* Floating-point rounding is outside the model.                           *)
(***************************************************************************)
EXTENDS Integers, Sequences, FiniteSets, TLC

VARIABLES
    call,       \* the latest generator call: its arguments and its result
    bufs,       \* heap of numpy buffers: buffer id -> sequence of rows
    arrays,     \* heap of VertexArray objects: id -> [system, data (buffer id)]
    facearrs,   \* heap of FaceArray objects: id -> sequence of index tuples
    meshes,     \* heap of Mesh objects: id -> [verts, faces, name]
    parent,     \* history: mesh id -> the mesh it was transformed from; 0 for a
                \* mesh built from generators, -1 for one sharing arrays
    last,       \* the latest Geometry-level operation and what it touched
    aop,        \* the latest VertexArray-level operation, its operands and
                \* what it returned or raised
    nwrites,    \* how many per-axis assignments have been carried out
    views       \* heap of WorldView objects: id -> [geometry, position, name]

vars == <<call, bufs, arrays, facearrs, meshes, parent, last, aop, nwrites, views>>
heapvars == <<bufs, arrays, facearrs, meshes, parent, last>>
arrvars == <<aop, nwrites>>
viewvars == <<views>>

---------------------------------------------------------------------------
(* Bounds *)

MaxN == 4           \* largest planar grid resolution N
MaxNTheta == 4      \* largest N_theta
MaxNz == 3          \* largest N_z
MaxShared == 1      \* largest number of Mesh objects sharing another's arrays
MaxApplications == 2    \* largest number of applications g >> t

RECURSIVE Fact(_)
Fact(n) == IF n <= 1 THEN 1 ELSE n * Fact(n - 1)

MaxOf(a, b) == IF a >= b THEN a ELSE b

\* fixed-point resolution: divisible by every linspace divisor in the bounds
Unit == Fact(MaxOf(MaxOf(MaxN, MaxNTheta), MaxNz))

\* the angle 2*pi, in angle units
TwoPi == Unit

\* [min, max] extents offered to the generators, in whole numbers
Extents == {<<0, 1>>, <<-1, 1>>, <<2, 5>>}

\* [theta_min, theta_max] offered to cylindrical_vertices, in angle units
ThetaRanges == {<<0, TwoPi>>, <<0, TwoPi \div 2>>, <<TwoPi \div 4, 3 * (TwoPi \div 4)>>}

None == "None"

---------------------------------------------------------------------------
(* numpy helpers, as the generators use them *)

\* range(a, b)
Range(a, b) == IF b <= a THEN <<>> ELSE [k \in 1..(b - a) |-> a + k - 1]

\* a % b of Python for b # 0: the result has the sign of b
PyMod(a, b) == IF b > 0 THEN a % b ELSE -((-a) % (-b))

\* np.linspace(start, stop, num, endpoint)
Linspace(start, stop, num, endpoint) ==
    LET div == IF endpoint THEN num - 1 ELSE num
        delta == stop - start
        step == IF div > 0 THEN delta \div div ELSE delta
    IN [k \in 1..num |->
          IF endpoint /\ num > 1 /\ k = num THEN stop
          ELSE start + (k - 1) * step]

\* np.meshgrid(xs, ys): two 2-D grids of shape (len(ys), len(xs))
MeshgridX(xs, ys) == [i \in 1..Len(ys) |-> [j \in 1..Len(xs) |-> xs[j]]]
MeshgridY(xs, ys) == [i \in 1..Len(ys) |-> [j \in 1..Len(xs) |-> ys[i]]]

\* G.shape = (rows*cols,): row-major flattening of a 2-D grid
RECURSIVE Flatten(_)
Flatten(G) == IF Len(G) = 0 THEN <<>> ELSE Head(G) \o Flatten(Tail(G))

\* np.zeros(shape) / np.full(shape, v) for a 1-D shape
Full(n, v) == [k \in 1..n |-> v]

\* np.dstack([A, B, C])[0] for 1-D arrays of equal length
Dstack3(A, B, C) == [k \in 1..Len(A) |-> <<A[k], B[k], C[k]>>]

\* np.dstack([A, B, C, D])[0] for 1-D arrays of equal length
Dstack4(A, B, C, D) == [k \in 1..Len(A) |-> <<A[k], B[k], C[k], D[k]>>]

---------------------------------------------------------------------------
(* topos/core/generators.py *)

\* planar_vertices with the two meshgrid outputs taken in the wrong order
planar_vertices_swapped(N, xmin, xmax, ymin, ymax) ==
    LET xs == Linspace(xmin, xmax, N, TRUE)
        ys == Linspace(ymin, ymax, N, TRUE)
        XS == Flatten(MeshgridY(ys, xs))
        YS == Flatten(MeshgridX(ys, xs))
        zeros == Full(Len(XS), 0)
    IN Dstack3(XS, YS, zeros)

planar_vertices(N, xmin, xmax, ymin, ymax) ==
    LET xs == Linspace(xmin, xmax, N, TRUE)
        ys == Linspace(ymin, ymax, N, TRUE)
        XS == Flatten(MeshgridX(xs, ys))
        YS == Flatten(MeshgridY(xs, ys))
        zeros == Full(Len(XS), 0)
    IN Dstack3(XS, YS, zeros)

\* planar_faces without the filter that drops the rightmost column
planar_faces_nofilter(N) ==
    LET M == N - 1
        ns == Range(1, N * M)
    IN Dstack4(ns, [k \in 1..Len(ns) |-> ns[k] + 1],
               [k \in 1..Len(ns) |-> ns[k] + (N + 1)],
               [k \in 1..Len(ns) |-> ns[k] + N])

\* planar_faces shifting the upper corners by M instead of N
planar_faces_shiftM(N) ==
    LET M == N - 1
        ns == SelectSeq(Range(1, N * M), LAMBDA i : PyMod(i, N) # 0)
    IN Dstack4(ns, [k \in 1..Len(ns) |-> ns[k] + 1],
               [k \in 1..Len(ns) |-> ns[k] + (M + 1)],
               [k \in 1..Len(ns) |-> ns[k] + M])

\* planar_faces enumerating the anchors from 0 instead of 1
planar_faces_from0(N) ==
    LET M == N - 1
        ns == SelectSeq(Range(0, N * M - 1), LAMBDA i : PyMod(i + 1, N) # 0)
    IN Dstack4(ns, [k \in 1..Len(ns) |-> ns[k] + 1],
               [k \in 1..Len(ns) |-> ns[k] + (N + 1)],
               [k \in 1..Len(ns) |-> ns[k] + N])

\* planar_faces anchoring quads on every row, the top row included
planar_faces_allrows(N) ==
    LET ns == SelectSeq(Range(1, N * N), LAMBDA i : PyMod(i, N) # 0)
    IN Dstack4(ns, [k \in 1..Len(ns) |-> ns[k] + 1],
               [k \in 1..Len(ns) |-> ns[k] + (N + 1)],
               [k \in 1..Len(ns) |-> ns[k] + N])

planar_faces(N) ==
    LET M == N - 1
        ns == SelectSeq(Range(1, N * M), LAMBDA i : PyMod(i, N) # 0)
        lower_left == ns
        lower_right == [k \in 1..Len(ns) |-> ns[k] + 1]
        upper_left == [k \in 1..Len(ns) |-> ns[k] + N]
        upper_right == [k \in 1..Len(ns) |-> ns[k] + (N + 1)]
    IN Dstack4(lower_left, lower_right, upper_right, upper_left)

\* the loop body without the wrap correction of the right-hand corners
CylFace_nowrap(N_theta, j, i) ==
    <<j * N_theta + i, j * N_theta + i + 1,
      (j + 1) * N_theta + i + 1, (j + 1) * N_theta + i>>

\* the body of the inner loop of cylindrical_faces: one face
CylFace(N_theta, j, i) ==
    LET lower_left == j * N_theta + i
        lower_right0 == j * N_theta + i + 1
        upper_right0 == (j + 1) * N_theta + i + 1
        upper_left == (j + 1) * N_theta + i
        lower_right == IF lower_right0 >= (j + 1) * N_theta
                       THEN lower_right0 - (N_theta - 1) ELSE lower_right0
        upper_right == IF upper_right0 >= (j + 2) * N_theta
                       THEN upper_right0 - (N_theta - 1) ELSE upper_right0
    IN <<lower_left, lower_right, upper_right, upper_left>>

\* for i in range(i, stop): faces.append(...)
RECURSIVE CylInner(_, _, _, _, _)
CylInner(faces, N_theta, j, i, stop) ==
    IF i >= stop THEN faces
    ELSE CylInner(Append(faces, CylFace(N_theta, j, i)), N_theta, j, i + 1, stop)

\* for j in range(j, N_z - 1): for i in range(1, N_theta + close_loop)
RECURSIVE CylOuter(_, _, _, _, _)
CylOuter(faces, N_theta, N_z, close_loop, j) ==
    IF j >= N_z - 1 THEN faces
    ELSE CylOuter(CylInner(faces, N_theta, j, 1,
                           N_theta + (IF close_loop THEN 1 ELSE 0)),
                  N_theta, N_z, close_loop, j + 1)

\* cylindrical_faces ignoring close_loop in the range of the inner loop
cylindrical_faces_open(N_theta, N_z, close_loop) ==
    CylOuter(<<>>, N_theta, N_z, FALSE, 0)

cylindrical_faces(N_theta, N_z, close_loop) ==
    CylOuter(<<>>, N_theta, N_z, close_loop, 0)

\* cylindrical_vertices with the end point always included
cylindrical_vertices_endpoint(N_theta, N_z, r, zmin, zmax, theta_min, theta_max) ==
    LET ts == Linspace(theta_min, theta_max, N_theta, TRUE)
        zs == Linspace(zmin, zmax, N_z, TRUE)
        TS == Flatten(MeshgridX(ts, zs))
        ZS == Flatten(MeshgridY(ts, zs))
        ones == Full(Len(ZS), r)
    IN Dstack3(TS, ZS, ones)

cylindrical_vertices(N_theta, N_z, r, zmin, zmax, theta_min, theta_max) ==
    LET endpoint == theta_max < TwoPi
        ts == Linspace(theta_min, theta_max, N_theta, endpoint)
        zs == Linspace(zmin, zmax, N_z, TRUE)
        TS == Flatten(MeshgridX(ts, zs))
        ZS == Flatten(MeshgridY(ts, zs))
        ones == Full(Len(ZS), r)
    IN Dstack3(TS, ZS, ones)

---------------------------------------------------------------------------
(* tests/test_generators.py: the reference implementation of planar_faces *)

RECURSIVE OldInner(_, _, _, _)
OldInner(faces, N, j, i) ==
    IF i >= N THEN faces
    ELSE OldInner(Append(faces, <<i + (j * N), (i + 1) + (j * N),
                                  (i + 1) + ((j + 1) * N), i + ((j + 1) * N)>>),
                  N, j, i + 1)

RECURSIVE OldOuter(_, _, _)
OldOuter(faces, N, j) ==
    IF j >= N - 1 THEN faces
    ELSE OldOuter(OldInner(faces, N, j, 1), N, j + 1)

old_planar_faces(N) == OldOuter(<<>>, N, 0)

---------------------------------------------------------------------------
(* The generator calls *)

NoCall == [fn |-> "none", N |-> 0, Nz |-> 0, close |-> FALSE,
           lo1 |-> 0, hi1 |-> 0, lo2 |-> 0, hi2 |-> 0, out |-> <<>>]

NoTransform == [kind |-> "none", factors |-> <<>>]

NoOp == [op |-> "none", src |-> 0, result |-> 0, arg |-> 0, ret |-> 0,
         argdata |-> <<>>, t |-> NoTransform, N |-> 0]

EmptyHeap ==
    /\ bufs = <<>>
    /\ arrays = <<>>
    /\ facearrs = <<>>
    /\ meshes = <<>>
    /\ parent = <<>>
    /\ last = NoOp

\* no VertexArray operation has been carried out
NoArrayOp == [op |-> "none", self |-> 0, other |-> 0, axis |-> "", key |-> <<>>,
              arg |-> [shape |-> <<0>>, flat |-> <<>>],
              prev |-> [shape |-> <<0>>, flat |-> <<>>],
              before |-> <<>>, out |-> <<>>,
              result |-> 0, err |-> ""]

NoArrayOps ==
    /\ aop = NoArrayOp
    /\ nwrites = 0

\* no WorldView has been made
NoViews == views = <<>>

InitGen ==
    /\ call = NoCall
    /\ EmptyHeap
    /\ NoArrayOps
    /\ NoViews

CallPlanarVertices ==
    \E N \in 1..MaxN, xe \in Extents, ye \in Extents :
        /\ call' = [fn |-> "planar_vertices", N |-> N, Nz |-> N, close |-> FALSE,
                    lo1 |-> xe[1] * Unit, hi1 |-> xe[2] * Unit,
                    lo2 |-> ye[1] * Unit, hi2 |-> ye[2] * Unit,
                    out |-> planar_vertices(N, xe[1] * Unit, xe[2] * Unit,
                                            ye[1] * Unit, ye[2] * Unit)]
        /\ UNCHANGED <<heapvars, arrvars, viewvars>>

CallPlanarFaces ==
    \E N \in 1..MaxN :
        /\ call' = [NoCall EXCEPT !.fn = "planar_faces", !.N = N, !.Nz = N,
                                  !.out = planar_faces(N)]
        /\ UNCHANGED <<heapvars, arrvars, viewvars>>

CallCylindricalFaces ==
    \E N_theta \in 1..MaxNTheta, N_z \in 1..MaxNz, close_loop \in BOOLEAN :
        /\ call' = [NoCall EXCEPT !.fn = "cylindrical_faces", !.N = N_theta,
                                  !.Nz = N_z, !.close = close_loop,
                                  !.out = cylindrical_faces(N_theta, N_z, close_loop)]
        /\ UNCHANGED <<heapvars, arrvars, viewvars>>

CallCylindricalVertices ==
    \E N_theta \in 1..MaxNTheta, N_z \in 1..MaxNz, tr \in ThetaRanges, ze \in Extents :
        /\ call' = [fn |-> "cylindrical_vertices", N |-> N_theta, Nz |-> N_z,
                    close |-> FALSE,
                    lo1 |-> tr[1], hi1 |-> tr[2],
                    lo2 |-> ze[1] * Unit, hi2 |-> ze[2] * Unit,
                    out |-> cylindrical_vertices(N_theta, N_z, Unit,
                                                 ze[1] * Unit, ze[2] * Unit,
                                                 tr[1], tr[2])]
        /\ UNCHANGED <<heapvars, arrvars, viewvars>>

\* a grid resolution as passed by a caller: an int, or a float such as 2.5
\* (val is then its integer part)
IntCount(n) == [integer |-> TRUE, val |-> n]
FloatCount(n) == [integer |-> FALSE, val |-> n]

\* the resolutions that are not positive integers, and a proper one
InvalidCounts == {IntCount(0), IntCount(-1), FloatCount(2)}
Counts == InvalidCounts \cup {IntCount(2)}

Generators ==
    {"planar_vertices", "planar_faces", "cylindrical_vertices", "cylindrical_faces"}

\* what np.linspace(start, stop, num) and the reshape that follows raise: a
\* float count is refused by linspace or, where linspace truncates it, by
\* the assignment of a float shape; a negative count is refused by linspace
LinspaceError(num) ==
    IF ~num.integer THEN "TypeError"
    ELSE IF num.val < 0 THEN "ValueError" ELSE ""

\* what range(a, b) raises for a bound computed from a resolution
RangeError(num) == IF ~num.integer THEN "TypeError" ELSE ""

\* the check cylindrical_vertices makes of N_theta
CheckNTheta(N_theta) ==
    IF ~N_theta.integer THEN "TypeError"
    ELSE IF N_theta.val < 1 THEN "ValueError" ELSE ""

\* the first error a call of a generator raises, "" if it returns
GeneratorError(gen, N, N_z, close_loop) ==
    CASE gen = "planar_vertices" -> LinspaceError(N)
      [] gen = "planar_faces" -> RangeError(N)
      [] gen = "cylindrical_vertices" ->
            IF CheckNTheta(N) # "" THEN CheckNTheta(N) ELSE LinspaceError(N_z)
      [] gen = "cylindrical_faces" ->
            IF RangeError(N_z) # "" THEN RangeError(N_z)
            ELSE IF N_z.val - 1 <= 0 THEN "" ELSE RangeError(N)

\* what the call returns when it raises nothing
GeneratorResult(gen, N, N_z, close_loop) ==
    CASE gen = "planar_vertices" -> planar_vertices(N.val, 0, Unit, 0, Unit)
      [] gen = "planar_faces" -> planar_faces(N.val)
      [] gen = "cylindrical_vertices" ->
            cylindrical_vertices(N.val, N_z.val, Unit, 0, Unit, 0, TwoPi)
      [] gen = "cylindrical_faces" ->
            IF N_z.val - 1 <= 0 THEN <<>>
            ELSE cylindrical_faces(N.val, N_z.val, close_loop)

\* the resolutions a generator takes
TakesNz(gen) == gen \in {"cylindrical_vertices", "cylindrical_faces"}

\* a generator called with a resolution that is not a positive integer
CallInvalidCount ==
    \E gen \in Generators, N \in Counts, N_z \in Counts, close_loop \in BOOLEAN :
        LET err == GeneratorError(gen, N, N_z, close_loop)
        IN /\ N \in InvalidCounts \/ (TakesNz(gen) /\ N_z \in InvalidCounts)
           /\ TakesNz(gen) \/ N_z = IntCount(2)
           /\ gen = "cylindrical_faces" \/ ~close_loop
           /\ call' = [fn |-> "invalid_count", gen |-> gen, N |-> N, Nz |-> N_z,
                       close |-> close_loop, err |-> err, returned |-> err = "",
                       out |-> IF err = ""
                               THEN GeneratorResult(gen, N, N_z, close_loop)
                               ELSE <<>>]
           /\ UNCHANGED <<heapvars, arrvars, viewvars>>

NextGen ==
    \/ CallPlanarVertices
    \/ CallPlanarFaces
    \/ CallCylindricalFaces
    \/ CallCylindricalVertices
    \/ CallInvalidCount

SpecGen == InitGen /\ [][NextGen]_vars

---------------------------------------------------------------------------
(* Properties of the generators, checked under SpecGen *)

\* every index occurring in a sequence of faces
Indices(faces) == UNION {{faces[k][c] : c \in DOMAIN faces[k]} : k \in DOMAIN faces}

\* C3: planar_vertices(N) has exactly N*N rows of 3 components, and
\* planar_faces(N) has exactly (N-1)*(N-1) rows, each of exactly 4 indices,
\* for every N >= 1.
C3_GridCardinality ==
    /\ call.fn = "planar_vertices" =>
          /\ Len(call.out) = call.N * call.N
          /\ \A k \in DOMAIN call.out : Len(call.out[k]) = 3
    /\ call.fn = "planar_faces" =>
          /\ Len(call.out) = (call.N - 1) * (call.N - 1)
          /\ \A k \in DOMAIN call.out : Len(call.out[k]) = 4

C3_Witness ==
    /\ call.fn = "planar_faces"
    /\ call.N = 3
    /\ Len(call.out) = 4

\* C4: for every N >= 2 and every quad (ll, lr, ur, ul) of planar_faces(N):
\* lr - ll = 1, ur - ul = 1, ul - ll = N and ur - lr = N.
C4_FaceAdjacency ==
    (call.fn = "planar_faces" /\ call.N >= 2) =>
        \A k \in DOMAIN call.out :
            LET ll == call.out[k][1]
                lr == call.out[k][2]
                ur == call.out[k][3]
                ul == call.out[k][4]
            IN /\ lr - ll = 1
               /\ ur - ul = 1
               /\ ul - ll = call.N
               /\ ur - lr = call.N

C4_Witness ==
    /\ call.fn = "planar_faces"
    /\ call.N = 4
    /\ Len(call.out) > 0
    /\ call.out[Len(call.out)] = <<11, 12, 16, 15>>

\* C5: for every N >= 2 planar_faces(N) equals the reference double loop row
\* for row; the lower-left anchors increase, none is a multiple of N or
\* greater than N*(N-1); for N = 3 there are 4 quads, the first (1,2,5,4).
C5_MatchesReference ==
    (call.fn = "planar_faces" /\ call.N >= 2) =>
        /\ call.out = old_planar_faces(call.N)
        /\ \A k \in DOMAIN call.out :
              /\ call.out[k][1] % call.N # 0
              /\ call.out[k][1] <= call.N * (call.N - 1)
              /\ k > 1 => call.out[k - 1][1] < call.out[k][1]
        /\ call.N = 3 => (Len(call.out) = 4 /\ call.out[1] = <<1, 2, 5, 4>>)

C5_Witness ==
    /\ call.fn = "planar_faces"
    /\ call.N = 3
    /\ call.out = <<<<1, 2, 5, 4>>, <<2, 3, 6, 5>>, <<4, 5, 8, 7>>, <<5, 6, 9, 8>>>>

C8_CyclicNeighbour ==
    (call.fn = "cylindrical_faces" /\ call.close) =>
        \A k \in DOMAIN call.out :
            LET ll == call.out[k][1]
                lr == call.out[k][2]
                ur == call.out[k][3]
                ul == call.out[k][4]
                j == (ll - 1) \div call.N
                i == ((ll - 1) % call.N) + 1
            IN IF i <= call.N - 1
               THEN lr = ll + 1 /\ ur = ul + 1
               ELSE lr = j * call.N + 1 /\ ur = (j + 1) * call.N + 1

\* C10: for N >= 2, row k (0-based) of planar_vertices(N, xmin, xmax, ymin,
\* ymax) has x the (k mod N)-th and y the (k div N)-th of N evenly spaced
\* values from the minimum to the maximum inclusive, and z = 0; the smallest
\* and largest x are xmin and xmax, the smallest and largest y ymin and ymax.
C10_PlanarGrid ==
    (call.fn = "planar_vertices" /\ call.N >= 2) =>
        /\ \A k \in 0..(call.N * call.N - 1) :
              LET row == call.out[k + 1]
              IN /\ row[1] * (call.N - 1) =
                      call.lo1 * (call.N - 1) + (k % call.N) * (call.hi1 - call.lo1)
                 /\ row[2] * (call.N - 1) =
                      call.lo2 * (call.N - 1) + (k \div call.N) * (call.hi2 - call.lo2)
                 /\ row[3] = 0
        /\ \A k \in DOMAIN call.out :
              /\ call.lo1 <= call.out[k][1] /\ call.out[k][1] <= call.hi1
              /\ call.lo2 <= call.out[k][2] /\ call.out[k][2] <= call.hi2
        /\ \E k \in DOMAIN call.out : call.out[k][1] = call.lo1
        /\ \E k \in DOMAIN call.out : call.out[k][1] = call.hi1
        /\ \E k \in DOMAIN call.out : call.out[k][2] = call.lo2
        /\ \E k \in DOMAIN call.out : call.out[k][2] = call.hi2

C10_Witness ==
    /\ call.fn = "planar_vertices"
    /\ call.N = 3
    /\ call.lo1 = 2 * Unit
    /\ call.hi1 = 5 * Unit
    /\ call.out[2] = <<(7 * Unit) \div 2, call.lo2, 0>>


\* the theta values of the rows a call of cylindrical_vertices returned
Thetas == {call.out[k][1] : k \in DOMAIN call.out}

SetMin(S) == CHOOSE v \in S : \A w \in S : v <= w
SetMax(S) == CHOOSE v \in S : \A w \in S : w <= v

\* C11 as stated: a full turn gives N_theta distinct angles in [0, 2*pi)
\* starting at 0; a range ending below 2*pi gives N_theta distinct angles
\* whose smallest is theta_min and whose largest is theta_max
C11_Original ==
    call.fn = "cylindrical_vertices" =>
        /\ Cardinality(Thetas) = call.N
        /\ (call.lo1 = 0 /\ call.hi1 = TwoPi) =>
               /\ \A t \in Thetas : 0 <= t /\ t < TwoPi
               /\ SetMin(Thetas) = 0
        /\ (call.lo1 < call.hi1 /\ call.hi1 < TwoPi) =>
               /\ SetMin(Thetas) = call.lo1
               /\ SetMax(Thetas) = call.hi1

\* C11 amended: as stated, except that the largest angle of a range ending
\* below 2*pi is theta_max only from two angles on; a single angle is
\* theta_min
C11_Amended ==
    call.fn = "cylindrical_vertices" =>
        /\ Cardinality(Thetas) = call.N
        /\ (call.lo1 = 0 /\ call.hi1 = TwoPi) =>
               /\ \A t \in Thetas : 0 <= t /\ t < TwoPi
               /\ SetMin(Thetas) = 0
        /\ (call.lo1 < call.hi1 /\ call.hi1 < TwoPi) =>
               /\ SetMin(Thetas) = call.lo1
               /\ SetMax(Thetas) = (IF call.N >= 2 THEN call.hi1 ELSE call.lo1)

\* a range ending below 2*pi sampled by a single angle
C11_Counterexample ==
    /\ call.fn = "cylindrical_vertices"
    /\ call.N = 1
    /\ call.hi1 < TwoPi
    /\ Thetas = {call.lo1}

\* three angles on the upper half range, end point included
C11_Witness ==
    /\ call.fn = "cylindrical_vertices"
    /\ call.N = 3
    /\ call.lo1 = TwoPi \div 4
    /\ Thetas = {TwoPi \div 4, TwoPi \div 2, 3 * (TwoPi \div 4)}


\* C27: for Ntheta >= 1 and Nz >= 2, closed or open, every index of every
\* face of cylindrical_faces(Ntheta, Nz, close_loop) refers to one of the
\* Ntheta*Nz vertices of cylindrical_vertices(Ntheta, Nz), numbered from 1
C27_ValidIndices ==
    (call.fn = "cylindrical_faces" /\ call.N >= 1 /\ call.Nz >= 2) =>
        \A v \in Indices(call.out) :
            /\ 1 <= v
            /\ v <= Len(cylindrical_vertices(call.N, call.Nz, Unit, 0, Unit, 0, TwoPi))

\* C28: with close_loop=False the faces are the unwrapped grid quads, band
\* by band and column by column, and for N >= 2
\* cylindrical_faces(N, N, False) is planar_faces(N)
C28_OpenGrid ==
    (call.fn = "cylindrical_faces" /\ ~call.close) =>
        /\ Len(call.out) = (call.N - 1) * (call.Nz - 1)
        /\ \A j \in 0..(call.Nz - 2) : \A i \in 1..(call.N - 1) :
               call.out[j * (call.N - 1) + i] =
                   <<j * call.N + i, j * call.N + i + 1,
                     (j + 1) * call.N + i + 1, (j + 1) * call.N + i>>
        /\ (call.N = call.Nz /\ call.N >= 2) => call.out = planar_faces(call.N)


\* C24: a generator called with a resolution that is not a positive integer
\* raises an error and returns nothing; cylindrical_vertices does so
\* whenever N_theta is not an integer or is below 1
C24_InvalidCount ==
    call.fn = "invalid_count" =>
        /\ call.err # ""
        /\ ~call.returned

---------------------------------------------------------------------------
(* topos/core/vertices.py, topos/core/faces.py, topos/core/geometry.py *)

\* names offered to Mesh(name=...); None is the absent name
MeshNames == {None, "plane"}

\* the (N_theta, N_z) of the tubes wrapped into a Mesh
TubeShapes == {<<1, 2>>, <<3, 2>>, <<2, 1>>}

\* Geometry.name: the default name is supplied when none is set
Name(m) == IF m.name = None THEN "Geometry" ELSE m.name

\* NativeCol with the cylindrical t and r columns exchanged
NativeCol_rzt(system, axis) ==
    IF system = "Cartesian"
    THEN (CASE axis = "x" -> 1 [] axis = "y" -> 2 [] axis = "z" -> 3 [] OTHER -> 0)
    ELSE (CASE axis = "r" -> 1 [] axis = "z" -> 2 [] axis = "t" -> 3 [] OTHER -> 0)

\* the buffer column (1-based) that stores an axis natively, 0 if the axis
\* is not native to the system: Cartesian stores (x, y, z), Cylindrical
\* stores (t, z, r)
NativeCol(system, axis) ==
    IF system = "Cartesian"
    THEN (CASE axis = "x" -> 1 [] axis = "y" -> 2 [] axis = "z" -> 3 [] OTHER -> 0)
    ELSE (CASE axis = "t" -> 1 [] axis = "z" -> 2 [] axis = "r" -> 3 [] OTHER -> 0)

\* data[:, c]
GetCol(data, c) == [k \in DOMAIN data |-> data[k][c]]

\* data[:, c] = vals
SetCol(data, c, vals) == [k \in DOMAIN data |-> [data[k] EXCEPT ![c] = vals[k]]]

---------------------------------------------------------------------------
(* Trigonometry.  An angle is an integer count of 2*pi/Unit.  The functions *)
(* are exact on the quarter turns and on the points of the coordinate axes; *)
(* the operations below are applied only where every value they compute     *)
(* lies there.                                                              *)

\* pi/2
Quarter == TwoPi \div 4

\* the quarter turn an angle falls on, 0..3
Quadrant(t) == (t \div Quarter) % 4

OnGrid(t) == t % Quarter = 0

\* np.cos, np.sin on quarter turns
Cos(t) == CASE Quadrant(t) = 0 -> 1 [] Quadrant(t) = 2 -> -1 [] OTHER -> 0
Sin(t) == CASE Quadrant(t) = 1 -> 1 [] Quadrant(t) = 3 -> -1 [] OTHER -> 0

\* np.arctan2(y, x) for a point of the axes: the result lies in (-pi, pi]
Arctan2(y, x) ==
    IF y = 0 THEN (IF x >= 0 THEN 0 ELSE 2 * Quarter)
    ELSE (IF y > 0 THEN Quarter ELSE -Quarter)

Abs(v) == IF v < 0 THEN -v ELSE v

\* np.sqrt of a perfect square
Sqrt(n) == CHOOSE s \in 0..n : s * s = n

\* np.sqrt(XS*XS + YS*YS) for a point of the axes
Hypot(x, y) == IF x = 0 THEN Abs(y) ELSE IF y = 0 THEN Abs(x) ELSE Sqrt(x * x + y * y)

\* a / b where b is cos or sin of a quarter turn and is not zero
Div(a, b) == IF b = 1 THEN a ELSE -a

\* a Cartesian row on a coordinate axis of the xy-plane
AxisPoint(row) == row[1] = 0 \/ row[2] = 0

\* Cartesian.cylindrical with the radius and angle columns exchanged
CartesianToCylindrical_rtz(data) ==
    [k \in DOMAIN data |->
        <<Hypot(data[k][1], data[k][2]), data[k][3], Arctan2(data[k][2], data[k][1])>>]

\* Cartesian.cylindrical
CartesianToCylindrical(data) ==
    [k \in DOMAIN data |->
        LET XS == data[k][1]
            YS == data[k][2]
            ZS == data[k][3]
            RS == Hypot(XS, YS)
            TS == Arctan2(YS, XS)
        IN <<TS, ZS, RS>>]

\* Cylindrical.cartesian
CylindricalToCartesian(data) ==
    [k \in DOMAIN data |->
        LET TS == data[k][1]
            ZS == data[k][2]
            RS == data[k][3]
            XS == RS * Cos(TS)
            YS == RS * Sin(TS)
        IN <<XS, YS, ZS>>]

\* VertexArray.cartesian
cartesian(system, data) ==
    IF system = "Cartesian" THEN data ELSE CylindricalToCartesian(data)

\* VertexArray.cylindrical
cylindrical(system, data) ==
    IF system = "Cylindrical" THEN data ELSE CartesianToCylindrical(data)

\* VertexArray.x / y / z / r / t: a column of the cartesian or the
\* cylindrical view; for an axis native to the system that view is the
\* buffer itself
GetAxis(system, data, axis) ==
    IF NativeCol(system, axis) # 0 THEN GetCol(data, NativeCol(system, axis))
    ELSE CASE axis = "x" -> GetCol(cartesian(system, data), 1)
           [] axis = "y" -> GetCol(cartesian(system, data), 2)
           [] axis = "r" -> GetCol(cylindrical(system, data), 3)
           [] axis = "t" -> GetCol(cylindrical(system, data), 1)

\* Cartesian.set_r
CartesianSetR(data, rs) ==
    LET ts == GetCol(CartesianToCylindrical(data), 1)
        xs == [k \in DOMAIN data |-> rs[k] * Cos(ts[k])]
        ys == [k \in DOMAIN data |-> rs[k] * Sin(ts[k])]
    IN SetCol(SetCol(data, 1, xs), 2, ys)

\* Cartesian.set_t with sine and cosine exchanged
CartesianSetT_swapped(data, ts) ==
    LET rs == GetCol(CartesianToCylindrical(data), 3)
        xs == [k \in DOMAIN data |-> rs[k] * Sin(ts[k])]
        ys == [k \in DOMAIN data |-> rs[k] * Cos(ts[k])]
    IN SetCol(SetCol(data, 1, xs), 2, ys)

\* Cartesian.set_t
CartesianSetT(data, ts) ==
    LET rs == GetCol(CartesianToCylindrical(data), 3)
        xs == [k \in DOMAIN data |-> rs[k] * Cos(ts[k])]
        ys == [k \in DOMAIN data |-> rs[k] * Sin(ts[k])]
    IN SetCol(SetCol(data, 1, xs), 2, ys)

\* Cylindrical.set_x
CylindricalSetX(data, xs) ==
    LET ys == GetCol(CylindricalToCartesian(data), 2)
        ts == [k \in DOMAIN data |-> Arctan2(ys[k], xs[k])]
        rs == [k \in DOMAIN data |-> Div(xs[k], Cos(ts[k]))]
    IN SetCol(SetCol(data, 1, ts), 3, rs)

\* Cylindrical.set_y
CylindricalSetY(data, ys) ==
    LET xs == GetCol(CylindricalToCartesian(data), 1)
        ts == [k \in DOMAIN data |-> Arctan2(ys[k], xs[k])]
        rs == [k \in DOMAIN data |-> Div(ys[k], Sin(ts[k]))]
    IN SetCol(SetCol(data, 3, rs), 1, ts)

\* the set_<axis> method of the array's class
SetMethod(system, data, axis, arr) ==
    IF NativeCol(system, axis) # 0 THEN SetCol(data, NativeCol(system, axis), arr)
    ELSE CASE axis = "r" -> CartesianSetR(data, arr)
           [] axis = "t" -> CartesianSetT(data, arr)
           [] axis = "x" -> CylindricalSetX(data, arr)
           [] axis = "y" -> CylindricalSetY(data, arr)

\* verts.<axis> = arr: _set_coord, _coord_set_array and set_<axis>;
\* an array of the wrong shape is rejected and nothing is written
SetAxis(system, data, axis, arr) ==
    IF Len(arr) # Len(data) THEN data
    ELSE SetMethod(system, data, axis, arr)

\* VertexArray.__init__: a 2-D buffer with exactly 3 columns
VertexArrayInitOk(rows) == \A k \in DOMAIN rows : Len(rows[k]) = 3

\* the ndarray planar_faces returns: shape (n, 4); an empty list comprehension
\* makes a float array
PlanarFacesArray(N) ==
    LET rows == planar_faces(N)
    IN [ndim |-> 2, cols |-> 4, integer |-> Len(rows) > 0, rows |-> rows]

\* the ndarray cylindrical_faces returns: np.array of a list of 4-tuples,
\* which for the empty list is a float array of shape (0,)
CylindricalFacesArray(N_theta, N_z, close_loop) ==
    LET rows == cylindrical_faces(N_theta, N_z, close_loop)
    IN IF Len(rows) = 0
       THEN [ndim |-> 1, cols |-> 0, integer |-> FALSE, rows |-> rows]
       ELSE [ndim |-> 2, cols |-> 4, integer |-> TRUE, rows |-> rows]

\* FaceArray.__init__ without the check of the element type
FaceArrayInitOk_anydtype(nd, num_sides) ==
    /\ nd.ndim = 2
    /\ nd.cols = num_sides

\* FaceArray.__init__: 2-D, num_sides columns, integer element type
FaceArrayInitOk(nd, num_sides) ==
    /\ nd.ndim = 2
    /\ nd.cols = num_sides
    /\ nd.integer

\* Quads.num_sides
QuadSides == 4

---------------------------------------------------------------------------
(* topos/core/transforms.py and the transform of the test suite *)

\* the transforms offered: a Scale is the list of its (axis, factor) entries
\* that are not None, in the order of its _factors dictionary
Transforms ==
    { [kind |-> "DummyTransform", factors |-> <<>>],
      [kind |-> "Scale", factors |-> <<>>],
      [kind |-> "Scale", factors |-> <<<<"y", 3>>, <<"z", 2>>>>],
      [kind |-> "Scale", factors |-> <<<<"z", 2>>, <<"r", 3>>>>] }

\* a transform is applied here only to arrays that store its axes natively
\* (the other axes go through the trigonometric conversions)
Applicable(t, system) ==
    /\ t.kind = "DummyTransform" => system = "Cartesian"
    /\ \A k \in DOMAIN t.factors : NativeCol(system, t.factors[k][1]) # 0

\* Scale.transform: for coord, factor in items: verts.coord = verts.coord * factor
RECURSIVE ScaleLoop(_, _, _)
ScaleLoop(system, data, factors) ==
    IF Len(factors) = 0 THEN data
    ELSE LET coord == Head(factors)[1]
             factor == Head(factors)[2]
             values == GetAxis(system, data, coord)
             scaled == [k \in DOMAIN values |-> values[k] * factor]
         IN ScaleLoop(system, SetAxis(system, data, coord, scaled), Tail(factors))

\* DummyTransform.transform: verts.x = np.zeros((verts.length,))
DummyTransform(system, data) == SetAxis(system, data, "x", Full(Len(data), 0))

\* t.transform(verts): the contents of verts' buffer when the call returns;
\* every transform here returns the array object it was given
TransformData(t, system, data) ==
    IF t.kind = "DummyTransform" THEN DummyTransform(system, data)
    ELSE ScaleLoop(system, data, t.factors)

\* VertexArray.copy with np.asarray in place of np.array: the buffer is shared
CopyBuffer_shared(a) == arrays[a].data

\* VertexArray.copy: np.array(self.data) allocates a fresh buffer; its id
CopyBuffer(a) == Len(bufs) + 1

\* the Mesh that __rrshift__ builds, with the name dropped
RshiftMesh_noname(g, new_verts) ==
    [verts |-> new_verts, faces |-> meshes[g].faces, name |-> None]

\* Mesh(verts=new_verts, faces=other.faces, name=other.name)
RshiftMesh(g, new_verts) ==
    [verts |-> new_verts, faces |-> meshes[g].faces, name |-> Name(meshes[g])]

---------------------------------------------------------------------------
(* The Geometry pipeline: a generator's output is wrapped into a Geometry, *)
(* which is then shared and piped through transforms.  One pipeline is     *)
(* modelled: pipelines over separately generated meshes share no object.   *)

Init ==
    /\ call = NoCall
    /\ EmptyHeap
    /\ NoArrayOps
    /\ NoViews

Shared == Cardinality({m \in DOMAIN meshes : parent[m] = -1})
Applications == Cardinality({m \in DOMAIN meshes : parent[m] > 0})

\* allocate a mesh over a fresh vertex array and a fresh face array
AllocMesh(system, rows, faces, name, op, N) ==
    /\ bufs' = Append(bufs, rows)
    /\ arrays' = Append(arrays, [system |-> system, data |-> Len(bufs) + 1])
    /\ facearrs' = Append(facearrs, [kind |-> "Quads", data |-> faces])
    /\ meshes' = Append(meshes, [verts |-> Len(arrays) + 1,
                                 faces |-> Len(facearrs) + 1, name |-> name])
    /\ parent' = Append(parent, 0)
    /\ last' = [NoOp EXCEPT !.op = op, !.result = Len(meshes) + 1, !.N = N]

\* a constructor raised: no object is made
Raise(op, N) ==
    /\ last' = [NoOp EXCEPT !.op = op, !.N = N]
    /\ UNCHANGED <<bufs, arrays, facearrs, meshes, parent>>

\* Mesh(Cartesian(planar_vertices(N)), Quads(planar_faces(N)), name)
NewPlanarMesh ==
    \E N \in 1..MaxN, name \in MeshNames :
        /\ meshes = <<>>
        /\ LET rows == planar_vertices(N, 0, Unit, 0, Unit)
               fs == PlanarFacesArray(N)
           IN IF VertexArrayInitOk(rows) /\ FaceArrayInitOk(fs, QuadSides)
              THEN AllocMesh("Cartesian", rows, fs.rows, name, "planar_mesh", N)
              ELSE Raise("planar_mesh_error", N)
        /\ UNCHANGED <<call, arrvars, viewvars>>

\* Mesh(Cylindrical(cylindrical_vertices(N_theta, N_z)),
\*      Quads(cylindrical_faces(N_theta, N_z, close_loop)), "tube")
NewCylindricalMesh ==
    \E shape \in TubeShapes, close_loop \in BOOLEAN :
        /\ meshes = <<>>
        /\ LET N_theta == shape[1]
               N_z == shape[2]
               rows == cylindrical_vertices(N_theta, N_z, Unit, 0, Unit, 0, TwoPi)
               fs == CylindricalFacesArray(N_theta, N_z, close_loop)
           IN IF VertexArrayInitOk(rows) /\ FaceArrayInitOk(fs, QuadSides)
              THEN AllocMesh("Cylindrical", rows, fs.rows, "tube",
                             "cylindrical_mesh", N_theta)
              ELSE Raise("cylindrical_mesh_error", N_theta)
        /\ UNCHANGED <<call, arrvars, viewvars>>

\* Mesh(name=name): no vertices, no faces
NewBareMesh ==
    \E name \in MeshNames :
        /\ meshes = <<>>
        /\ meshes' = Append(meshes, [verts |-> 0, faces |-> 0, name |-> name])
        /\ parent' = Append(parent, 0)
        /\ last' = [NoOp EXCEPT !.op = "bare_mesh", !.result = Len(meshes) + 1]
        /\ UNCHANGED <<call, arrvars, viewvars, bufs, arrays, facearrs>>

\* Mesh(verts=g.vertices, faces=g.faces, name="shared"): a caller composes a
\* second Geometry over the very same array objects
NewSharingMesh ==
    \E g \in DOMAIN meshes :
        /\ Shared < MaxShared
        /\ meshes' = Append(meshes, [verts |-> meshes[g].verts,
                                     faces |-> meshes[g].faces, name |-> "shared"])
        /\ parent' = Append(parent, -1)
        /\ last' = [NoOp EXCEPT !.op = "sharing_mesh", !.src = g,
                                !.result = Len(meshes) + 1]
        /\ UNCHANGED <<call, arrvars, viewvars, bufs, arrays, facearrs>>

\* g >> t, VertexTransform.__rrshift__
Rshift ==
    \E g \in DOMAIN meshes, t \in Transforms :
        /\ Applications < MaxApplications
        /\ IF meshes[g].verts = 0
           THEN \* other.vertices is None: .copy() raises
                /\ last' = [NoOp EXCEPT !.op = "rshift_error", !.src = g, !.t = t]
                /\ UNCHANGED <<bufs, arrays, facearrs, meshes, parent>>
           ELSE LET v == meshes[g].verts
                    system == arrays[v].system
                    nb == CopyBuffer(v)
                    copied == bufs[arrays[v].data]
                    new == Len(arrays) + 1
                    after == TransformData(t, system, copied)
                IN /\ Applicable(t, system)
                   /\ bufs' = [k \in 1..MaxOf(Len(bufs), nb) |->
                                 IF k = nb THEN after ELSE bufs[k]]
                   /\ arrays' = Append(arrays, [system |-> system, data |-> nb])
                   /\ meshes' = Append(meshes, RshiftMesh(g, new))
                   /\ parent' = Append(parent, g)
                   /\ last' = [op |-> "rshift", src |-> g,
                               result |-> Len(meshes) + 1, arg |-> new,
                               ret |-> new, argdata |-> copied, t |-> t, N |-> 0]
                   /\ UNCHANGED facearrs
        /\ UNCHANGED <<call, arrvars, viewvars>>

Next ==
    \/ NewPlanarMesh
    \/ NewCylindricalMesh
    \/ NewBareMesh
    \/ NewSharingMesh
    \/ Rshift

Spec == Init /\ [][Next]_vars

---------------------------------------------------------------------------
(* Properties of the Geometry pipeline, checked under Spec *)

\* g.vertices.data
VertexData(m) == bufs[arrays[meshes[m].verts].data]

\* C1: evaluating g >> t, also for a transform that mutates its argument in
\* place, leaves the vertex data of g unchanged, and likewise the data of
\* every Geometry made so far, in any chain of applications.
C1_NonMutation ==
    [][\A m \in DOMAIN meshes :
          meshes[m].verts # 0 =>
              /\ m \in DOMAIN meshes'
              /\ meshes'[m] = meshes[m]
              /\ bufs'[arrays'[meshes'[m].verts].data] = VertexData(m)]_vars

C1_Witness ==
    /\ last.op = "rshift"
    /\ last.t.kind = "DummyTransform"
    /\ parent[last.src] > 0
    /\ bufs[arrays[last.arg].data] # last.argdata
    /\ VertexData(last.src) = last.argdata

\* C2: g >> t returns a new Mesh distinct from g whose faces is the same
\* face-array object as g.faces, whose name equals g.name, and whose vertices
\* is the array t.transform returned, transform having been given a copy of
\* g.vertices: another array object over another buffer, of the same system
\* and with the same contents.
C2_RshiftResult ==
    last.op = "rshift" =>
        LET g == last.src
            q == last.result
        IN /\ q # g
           /\ q = Len(meshes)
           /\ meshes[q].faces = meshes[g].faces
           /\ Name(meshes[q]) = Name(meshes[g])
           /\ meshes[q].verts = last.ret
           /\ last.arg # meshes[g].verts
           /\ arrays[last.arg].data # arrays[meshes[g].verts].data
           /\ arrays[last.arg].system = arrays[meshes[g].verts].system
           /\ last.argdata = VertexData(g)
           /\ VertexData(q) =
                 TransformData(last.t, arrays[last.arg].system, last.argdata)

C2_Witness ==
    /\ last.op = "rshift"
    /\ last.t.kind = "Scale"
    /\ Name(meshes[last.src]) = "plane"
    /\ meshes[last.src].faces # 0
    /\ meshes[last.result].faces = meshes[last.src].faces
    /\ VertexData(last.result) # VertexData(last.src)

\* C9 as stated: in a Geometry made of planar_vertices(N) and planar_faces(N),
\* N >= 2, every index in faces is < vertices.length.
C9_Original ==
    (last.op = "planar_mesh" /\ last.N >= 2) =>
        \A v \in Indices(facearrs[meshes[last.result].faces].data) :
            v < Len(VertexData(last.result))

\* C9 amended: in a Geometry made of planar_vertices(N) and planar_faces(N),
\* N >= 2, every index in faces is a 1-based vertex number: it lies in
\* 1..vertices.length, vertices.length is N*N, and N*N itself occurs.
C9_Amended ==
    (last.op = "planar_mesh" /\ last.N >= 2) =>
        LET idx == Indices(facearrs[meshes[last.result].faces].data)
            length == Len(VertexData(last.result))
        IN /\ length = last.N * last.N
           /\ \A v \in idx : 1 <= v /\ v <= length
           /\ length \in idx

C9_Witness ==
    /\ last.op = "planar_mesh"
    /\ last.N = 3
    /\ Len(VertexData(last.result)) = 9
    /\ facearrs[meshes[last.result].faces].data[4] = <<5, 6, 9, 8>>

---------------------------------------------------------------------------
(* topos/core/vertices.py: operations on VertexArray objects.  Array 1 is   *)
(* the array a operated on and array 2 a second operand b; arrays and       *)
(* buffers an operation returns are allocated after them.                   *)

MaxRows == 2
MaxChain == 2
MaxWrites == 2

\* rows of the coordinate axes, and rows whose angle is a quarter turn
CartesianRows == {<<1, 0, 0>>, <<0, -2, 1>>, <<-2, 0, 2>>}
CylindricalRows == {<<0, 0, 1>>, <<3 * Quarter, 1, 2>>, <<Quarter, 2, 0>>}

RowSeqs(S) == UNION {[1..n -> S] : n \in 0..MaxRows}

\* the arrays a
Operands ==
    [system : {"Cartesian"}, rows : RowSeqs(CartesianRows)]
        \cup [system : {"Cylindrical"}, rows : RowSeqs(CylindricalRows)]

\* the arrays b
Others ==
    {[system |-> "Cartesian", rows |-> <<<<0, 2, 1>>>>],
     [system |-> "Cylindrical", rows |-> <<<<2 * Quarter, 0, 1>>, <<-Quarter, 1, 3>>>>]}

Axes == {"x", "y", "z", "r", "t"}

\* np.array(vals), of shape (n,)
Vector(vals) == [shape |-> <<Len(vals)>>, flat |-> vals]

\* np.array(vals).reshape(n, 1)
Column(vals) == [shape |-> <<Len(vals), 1>>, flat |-> vals]

\* the buffer and the system of array object i
Data(i) == bufs[arrays[i].data]
System(i) == arrays[i].system

\* a = Cartesian(rows) or Cylindrical(rows); b likewise
InitArr ==
    \E va \in Operands, vb \in Others :
        /\ VertexArrayInitOk(va.rows)
        /\ VertexArrayInitOk(vb.rows)
        /\ bufs = <<va.rows, vb.rows>>
        /\ arrays = <<[system |-> va.system, data |-> 1],
                      [system |-> vb.system, data |-> 2]>>
        /\ facearrs = <<>>
        /\ meshes = <<>>
        /\ parent = <<>>
        /\ last = NoOp
        /\ call = NoCall
        /\ NoArrayOps
        /\ NoViews

\* no operation has returned anything yet
Fresh == Len(bufs) = 2 /\ Len(arrays) = 2

\* the radius of a row
Radius(system, row) ==
    IF system = "Cartesian" THEN Hypot(row[1], row[2]) ELSE row[3]

\* Cylindrical(v.cylindrical).cartesian for a Cartesian v,
\* Cartesian(v.cartesian).cylindrical for a Cylindrical v
RoundTrip(system, data) ==
    IF system = "Cartesian"
    THEN cartesian("Cylindrical", cylindrical("Cartesian", data))
    ELSE cylindrical("Cartesian", cartesian("Cylindrical", data))

\* convert a to the other system and back
TakeRoundTrip ==
    /\ Fresh
    /\ aop' = [NoArrayOp EXCEPT !.op = "roundtrip", !.self = 1,
                                 !.before = Data(1),
                                 !.out = RoundTrip(System(1), Data(1))]
    /\ UNCHANGED <<call, heapvars, nwrites, viewvars>>

\* self.__getattribute__(system) / other.__getattribute__(system): the
\* cartesian or the cylindrical view of array i
View(system, i) ==
    IF system = "Cartesian" THEN cartesian(System(i), Data(i))
    ELSE cylindrical(System(i), Data(i))

\* np.concatenate keeping the first block only
Concatenate_first(vs, us) == vs

\* np.concatenate((vs, us))
Concatenate(vs, us) == vs \o us

\* the rows of self + other for two arrays: other's rows in self's system,
\* then self's rows
AddArrayRows(i, j) ==
    LET system == System(i)
        us == View(system, i)
        vs == View(system, j)
    IN Concatenate(vs, us)

\* self.fromarray(verts): a new array of self's class over the buffer verts
FromArray(i, verts) ==
    /\ VertexArrayInitOk(verts)
    /\ bufs' = Append(bufs, verts)
    /\ arrays' = Append(arrays, [system |-> System(i), data |-> Len(bufs) + 1])

\* a + b, b + a, a + a, b + b
AddArrays ==
    \E i \in {1, 2}, j \in {1, 2} :
        /\ Fresh
        /\ FromArray(i, AddArrayRows(i, j))
        /\ aop' = [NoArrayOp EXCEPT !.op = "add", !.self = i, !.other = j,
                                     !.before = <<Data(i), Data(j)>>,
                                     !.result = Len(arrays) + 1]
        /\ UNCHANGED <<call, facearrs, meshes, parent, last, nwrites, viewvars>>

\* the arrays added to a vertex array: c, -c, and two of the wrong shape
VectorArgs ==
    {Vector(<<1, 4, -2>>), Vector(<<-1, -4, 2>>), Vector(<<1, 4>>),
     [shape |-> <<1, 3>>, flat |-> <<1, 4, -2>>]}

\* vs + other with the first component of other added to every column
AddVectorRows_scalar(vs, c) ==
    [k \in DOMAIN vs |-> <<vs[k][1] + c[1], vs[k][2] + c[1], vs[k][3] + c[1]>>]

\* vs + other, broadcast over the rows
AddVectorRows(vs, c) ==
    [k \in DOMAIN vs |-> <<vs[k][1] + c[1], vs[k][2] + c[2], vs[k][3] + c[3]>>]

\* how many vector additions led from a to the latest array
ChainLength == Len(arrays) - 2

\* the array a vector is added to: a, then the latest sum
ChainEnd == IF ChainLength = 0 THEN 1 ELSE Len(arrays)

\* a + c, (a + c) + c', ...
AddVector ==
    \E c \in VectorArgs :
        LET i == ChainEnd
        IN /\ Fresh \/ (aop.op = "addvec" /\ aop.err = "")
           /\ ChainLength < MaxChain
           /\ IF c.shape = <<3>>
              THEN /\ FromArray(i, AddVectorRows(View(System(i), i), c.flat))
                   /\ aop' = [NoArrayOp EXCEPT !.op = "addvec", !.self = i,
                                                !.arg = c, !.prev = aop.arg,
                                                !.other = aop.self,
                                                !.before = <<Data(i)>>,
                                                !.result = Len(arrays) + 1]
              ELSE /\ aop' = [NoArrayOp EXCEPT !.op = "addvec", !.self = i,
                                                !.arg = c, !.prev = aop.arg,
                                                !.other = aop.self,
                                                !.before = <<Data(i)>>,
                                                !.err = "TypeError"]
                   /\ UNCHANGED <<bufs, arrays>>
           /\ UNCHANGED <<call, facearrs, meshes, parent, last, nwrites, viewvars>>

\* VertexArray._coords
Coords == <<"x", "y", "z", "r", "t">>

\* a Python string, as its characters
Str(chars) == [str |-> TRUE, chars |-> chars]

\* an element of a key that is not a string
NotStr == [str |-> FALSE, chars |-> <<>>]

\* a key that can be iterated, and one that cannot
Iterable(items) == [iterable |-> TRUE, items |-> items]
NotIterable == [iterable |-> FALSE, items |-> <<>>]

\* the keys: 'x', 'xz', 'rzt', ('z', 'z'), 'ty', 'xq', ['xy'], [''], ['xz'],
\* ['x', 1], (), 5
Keys ==
    {Iterable(<<Str(<<"x">>)>>),
     Iterable(<<Str(<<"x">>), Str(<<"z">>)>>),
     Iterable(<<Str(<<"r">>), Str(<<"z">>), Str(<<"t">>)>>),
     Iterable(<<Str(<<"z">>), Str(<<"z">>)>>),
     Iterable(<<Str(<<"t">>), Str(<<"y">>)>>),
     Iterable(<<Str(<<"x">>), Str(<<"q">>)>>),
     Iterable(<<Str(<<"x", "y">>)>>),
     Iterable(<<Str(<<>>)>>),
     Iterable(<<Str(<<"x", "z">>)>>),
     Iterable(<<Str(<<"x">>), NotStr>>),
     Iterable(<<>>),
     NotIterable}

\* c in self._coords, for a string c: c occurs in 'xyzrt' as a substring
InCoords(chars) ==
    \E i \in 0..(Len(Coords) - Len(chars)) :
        SubSeq(Coords, i + 1, i + Len(chars)) = chars

\* VertexArray has the properties x, y, z, r, t and no attribute named by
\* any other substring of 'xyzrt'
HasAxisAttribute(chars) == Len(chars) = 1 /\ chars[1] \in Axes

\* the loop of __getitem__ from element idx on: the columns collected and
\* the error that ended it
RECURSIVE GetItemLoop(_, _, _, _, _)
GetItemLoop(system, data, items, idx, coords) ==
    IF idx > Len(items) THEN [err |-> "", coords |-> coords]
    ELSE LET c == items[idx]
         IN IF ~c.str THEN [err |-> "NotIterable", coords |-> coords]
            ELSE IF ~InCoords(c.chars) THEN [err |-> "UnknownAxis", coords |-> coords]
            ELSE IF ~HasAxisAttribute(c.chars)
                 THEN [err |-> "AttributeError", coords |-> coords]
            ELSE GetItemLoop(system, data, items, idx + 1,
                             Append(coords, GetAxis(system, data, c.chars[1])))

\* np.dstack(coords)[0] with the columns in reverse
DstackRows_reversed(coords, n) ==
    [k \in 1..n |-> [j \in 1..Len(coords) |-> coords[Len(coords) + 1 - j][k]]]

\* np.dstack(coords)[0] for columns of n elements
DstackRows(coords, n) ==
    [k \in 1..n |-> [j \in 1..Len(coords) |-> coords[j][k]]]

\* a[key]
GetItem ==
    \E key \in Keys :
        LET loop == IF key.iterable
                    THEN GetItemLoop(System(1), Data(1), key.items, 1, <<>>)
                    ELSE [err |-> "NotIterable", coords |-> <<>>]
            err == IF loop.err # "" THEN loop.err
                   ELSE IF loop.coords = <<>> THEN "ValueError" ELSE ""
        IN /\ Fresh
           /\ IF err = ""
              THEN /\ bufs' = Append(bufs, DstackRows(loop.coords, Len(Data(1))))
                   /\ aop' = [NoArrayOp EXCEPT !.op = "getitem", !.self = 1,
                                                !.key = key,
                                                !.before = <<Data(1)>>,
                                                !.result = Len(bufs) + 1]
              ELSE /\ aop' = [NoArrayOp EXCEPT !.op = "getitem", !.self = 1,
                                                !.key = key,
                                                !.before = <<Data(1)>>,
                                                !.err = err]
                   /\ UNCHANGED bufs
           /\ UNCHANGED <<call, arrays, facearrs, meshes, parent, last, nwrites, viewvars>>

NextAlg ==
    \/ TakeRoundTrip
    \/ AddArrays
    \/ AddVector
    \/ GetItem

SpecAlg == InitArr /\ [][NextAlg]_vars

---------------------------------------------------------------------------
(* Properties of the conversions, of addition and of indexing, checked      *)
(* under SpecAlg                                                            *)

\* the axes a system stores, and the column that stores each
StoredColumn(system, axis) ==
    IF system = "Cartesian"
    THEN (IF axis = "x" THEN 1 ELSE IF axis = "y" THEN 2 ELSE 3)
    ELSE (IF axis = "t" THEN 1 ELSE IF axis = "z" THEN 2 ELSE 3)

NativeAxes(system) ==
    IF system = "Cartesian" THEN {"x", "y", "z"} ELSE {"t", "z", "r"}

AllRadiiPositive(i) ==
    \A k \in DOMAIN Data(i) : Radius(System(i), Data(i)[k]) > 0

\* C12 as stated: for a buffer whose rows all have r > 0, converting to the
\* other system and back returns the buffer, whatever the stored angles
C12_Original ==
    (aop.op = "roundtrip" /\ AllRadiiPositive(aop.self)) =>
        aop.out = Data(aop.self)

\* C12 amended: Cartesian rows with r > 0 come back unchanged; cylindrical
\* rows with r > 0 come back with the same z and r and with the stored
\* angle reduced modulo 2*pi into (-pi, pi], hence unchanged exactly when
\* the stored angle lies in (-pi, pi]
C12_Amended ==
    (aop.op = "roundtrip" /\ AllRadiiPositive(aop.self)) =>
        /\ Len(aop.out) = Len(Data(aop.self))
        /\ System(aop.self) = "Cartesian" => aop.out = Data(aop.self)
        /\ System(aop.self) = "Cylindrical" =>
               \A k \in DOMAIN aop.out :
                   LET v == Data(aop.self)[k]
                       w == aop.out[k]
                   IN /\ w[2] = v[2]
                      /\ w[3] = v[3]
                      /\ (w[1] - v[1]) % TwoPi = 0
                      /\ -(TwoPi \div 2) < w[1] /\ w[1] <= TwoPi \div 2
                      /\ (w = v) <=> (-(TwoPi \div 2) < v[1] /\ v[1] <= TwoPi \div 2)

\* a cylindrical row stored at 3*pi/2 came back at -pi/2
C12_Witness ==
    /\ aop.op = "roundtrip"
    /\ System(aop.self) = "Cylindrical"
    /\ Len(aop.out) >= 1
    /\ AllRadiiPositive(aop.self)
    /\ Data(aop.self)[1] = <<3 * Quarter, 1, 2>>
    /\ aop.out[1] = <<-Quarter, 1, 2>>

\* the buffers that belong to array objects other than q
BuffersBut(q) == {arrays[i].data : i \in DOMAIN arrays \ {q}}

\* C17: for two arrays in any combination of systems, self + other is a new
\* array over a new buffer, of self's system, with len(self) + len(other)
\* rows, and the buffers of both operands are as they were
C17_AddArrays ==
    aop.op = "add" =>
        /\ aop.result \notin {aop.self, aop.other}
        /\ arrays[aop.result].data \notin BuffersBut(aop.result)
        /\ System(aop.result) = System(aop.self)
        /\ Len(Data(aop.result)) = Len(aop.before[1]) + Len(aop.before[2])
        /\ Data(aop.self) = aop.before[1]
        /\ Data(aop.other) = aop.before[2]

\* a two-row Cylindrical a plus the one-row Cartesian b
C17_Witness ==
    /\ aop.op = "add"
    /\ aop.self = 1
    /\ aop.other = 2
    /\ System(1) = "Cylindrical"
    /\ System(2) = "Cartesian"
    /\ Len(Data(1)) = 2
    /\ Len(Data(aop.result)) = 3
    /\ System(aop.result) = "Cylindrical"

\* C18: self + c for a 3-vector c is a new array over a new buffer, of
\* self's system and length, each row being self's stored row plus c; the
\* buffer of self is as it was; adding -c to a sum self + c gives the rows
\* of self
C18_AddVector ==
    (aop.op = "addvec" /\ aop.err = "") =>
        LET c == aop.arg.flat
        IN /\ aop.result # aop.self
           /\ arrays[aop.result].data \notin BuffersBut(aop.result)
           /\ System(aop.result) = System(aop.self)
           /\ Len(Data(aop.result)) = Len(Data(aop.self))
           /\ \A k \in DOMAIN Data(aop.self) : \A j \in 1..3 :
                  Data(aop.result)[k][j] = Data(aop.self)[k][j] + c[j]
           /\ Data(aop.self) = aop.before[1]
           /\ (/\ aop.self > 2
               /\ aop.prev.shape = <<3>>
               /\ \A j \in 1..3 : aop.prev.flat[j] = -c[j]) =>
                  Data(aop.result) = Data(aop.other)

\* (a + c) + (-c) for a two-row Cylindrical a
C18_Witness ==
    /\ aop.op = "addvec"
    /\ aop.err = ""
    /\ aop.self = 3
    /\ aop.other = 1
    /\ System(1) = "Cylindrical"
    /\ Len(Data(1)) = 2
    /\ aop.arg.flat = <<-1, -4, 2>>
    /\ aop.prev.flat = <<1, 4, -2>>
    /\ Data(3) # Data(1)
    /\ Data(aop.result) = Data(1)

\* C29: the rows of self + other are self's rows in order, followed by
\* other's rows in order expressed in self's system
C29_RowOrder ==
    aop.op = "add" =>
        LET a == aop.before[1]
            b == View(System(aop.self), aop.other)
            sum == Data(aop.result)
        IN /\ Len(sum) = Len(a) + Len(b)
           /\ \A k \in DOMAIN sum :
                  sum[k] = IF k <= Len(a) THEN a[k] ELSE b[k - Len(a)]

\* a key that is a non-empty sequence of letters of {x, y, z, r, t}
AxisLetters(key) ==
    /\ key.iterable
    /\ Len(key.items) >= 1
    /\ \A j \in DOMAIN key.items :
           /\ key.items[j].str
           /\ Len(key.items[j].chars) = 1
           /\ key.items[j].chars[1] \in Axes

\* C19: for a key of axis letters, indexing returns a new buffer of n rows
\* and len(key) columns; column j is what reading the axis of letter j
\* returns, and for an axis native to the system that is the stored column;
\* the array's own buffer is as it was
C19_GetItem ==
    (aop.op = "getitem" /\ AxisLetters(aop.key)) =>
        /\ aop.err = ""
        /\ aop.result \notin {arrays[i].data : i \in DOMAIN arrays}
        /\ Len(bufs[aop.result]) = Len(Data(aop.self))
        /\ \A k \in DOMAIN Data(aop.self) :
               /\ Len(bufs[aop.result][k]) = Len(aop.key.items)
               /\ \A j \in DOMAIN aop.key.items :
                      LET axis == aop.key.items[j].chars[1]
                      IN /\ bufs[aop.result][k][j] =
                               GetAxis(System(aop.self), Data(aop.self), axis)[k]
                         /\ axis \in NativeAxes(System(aop.self)) =>
                               bufs[aop.result][k][j] =
                                   Data(aop.self)[k][StoredColumn(System(aop.self), axis)]
        /\ Data(aop.self) = aop.before[1]

\* a['rzt'] on a two-row Cartesian array
C19_Witness ==
    /\ aop.op = "getitem"
    /\ aop.err = ""
    /\ System(aop.self) = "Cartesian"
    /\ Data(aop.self) = <<<<0, -2, 1>>, <<1, 0, 0>>>>
    /\ Len(aop.key.items) = 3
    /\ bufs[aop.result] = <<<<2, 1, -Quarter>>, <<1, 0, 0>>>>

\* the key holds a single letter that is none of x, y, z, r, t
HasOutsideLetter(key) ==
    /\ key.iterable
    /\ \E j \in DOMAIN key.items :
           /\ key.items[j].str
           /\ Len(key.items[j].chars) = 1
           /\ key.items[j].chars[1] \notin Axes

\* the key is a sequence of single characters
SingleCharacters(key) ==
    /\ key.iterable
    /\ \A j \in DOMAIN key.items :
           key.items[j].str /\ Len(key.items[j].chars) = 1

\* C20: a key of single characters with a letter outside {x, y, z, r, t}
\* fails with UnknownAxis; a key that is not a sequence of single characters
\* fails with NotIterable (or with UnknownAxis, if it holds an outside letter
\* too); nothing else is raised and the buffer is as it was
C20_ErrorKinds ==
    aop.op = "getitem" =>
        /\ (SingleCharacters(aop.key) /\ HasOutsideLetter(aop.key)) =>
               aop.err = "UnknownAxis"
        /\ (~SingleCharacters(aop.key) /\ ~HasOutsideLetter(aop.key)) =>
               aop.err = "NotIterable"
        /\ (~SingleCharacters(aop.key) /\ HasOutsideLetter(aop.key)) =>
               aop.err \in {"NotIterable", "UnknownAxis"}
        /\ aop.err \in {"", "UnknownAxis", "NotIterable"}
        /\ Data(aop.self) = aop.before[1]

---------------------------------------------------------------------------
(* topos/core/vertices.py: assignment to an axis, verts.<axis> = arr, and   *)
(* the reads that follow it                                                 *)

\* the step between the values assigned to an axis: a quarter turn for angles
AxisStep(axis) == IF axis = "t" THEN Quarter ELSE 1

\* the arrays assigned to an axis of an array of n rows: of the right shape,
\* one element too long, and two-dimensional
Assigned(axis, n) ==
    {Vector([k \in 1..n |-> 0]),
     Vector([k \in 1..n |-> k * AxisStep(axis)]),
     Vector([k \in 1..n |-> -k * AxisStep(axis)]),
     Vector([k \in 1..(n + 1) |-> k * AxisStep(axis)]),
     Column([k \in 1..n |-> k * AxisStep(axis)])}

\* _coord_set_array accepting every array
CoordSetArrayOk_anyshape(data, arr) == TRUE

\* _coord_set_array: arr.shape == (self.length,)
CoordSetArrayOk(data, arr) == arr.shape = <<Len(data)>>

\* the rows lie where the trigonometry above is exact
ExactData(system, data) ==
    \A k \in DOMAIN data :
        IF system = "Cartesian" THEN AxisPoint(data[k]) ELSE OnGrid(data[k][1])

\* set_<axis>(arr) computes only values on which the arithmetic above is
\* exact and divides by no zero
SetExact(system, data, axis, arr) ==
    Len(arr) = Len(data) =>
        /\ ExactData(system, SetMethod(system, data, axis, arr))
        /\ (system = "Cartesian" /\ axis = "t") =>
               \A k \in DOMAIN arr : OnGrid(arr[k])
        /\ (system = "Cylindrical" /\ axis = "x") =>
               \A k \in DOMAIN data : data[k][3] * Sin(data[k][1]) = 0
        /\ (system = "Cylindrical" /\ axis = "y") =>
               \A k \in DOMAIN data :
                   data[k][3] * Cos(data[k][1]) = 0 /\ arr[k] # 0

\* a.<axis> = arr
AssignAxis ==
    \E axis \in Axes :
        \E arr \in Assigned(axis, Len(Data(1))) :
            LET system == System(1)
                data == Data(1)
                ok == CoordSetArrayOk(data, arr)
            IN /\ nwrites < MaxWrites
               /\ ok => SetExact(system, data, axis, arr.flat)
               /\ bufs' = IF ok
                          THEN [bufs EXCEPT ![arrays[1].data] =
                                    SetAxis(system, data, axis, arr.flat)]
                          ELSE bufs
               /\ aop' = [NoArrayOp EXCEPT !.op = "set", !.self = 1,
                                            !.axis = axis, !.arg = arr,
                                            !.before = data,
                                            !.err = IF ok THEN "" ELSE "TypeError"]
               /\ nwrites' = IF ok THEN nwrites + 1 ELSE nwrites
               /\ UNCHANGED <<call, arrays, facearrs, meshes, parent, last, viewvars>>

\* the seven views read from the buffer as it was before the latest write
ReadViews_stale(i) ==
    LET system == System(i)
        data == IF aop.op = "set" THEN aop.before ELSE Data(i)
    IN [cartesian |-> cartesian(system, data),
        cylindrical |-> cylindrical(system, data),
        x |-> GetAxis(system, data, "x"),
        y |-> GetAxis(system, data, "y"),
        z |-> GetAxis(system, data, "z"),
        r |-> GetAxis(system, data, "r"),
        t |-> GetAxis(system, data, "t")]

\* a.cartesian, a.cylindrical, a.x, a.y, a.z, a.r, a.t
ReadViews(i) ==
    LET system == System(i)
        data == Data(i)
    IN [cartesian |-> cartesian(system, data),
        cylindrical |-> cylindrical(system, data),
        x |-> GetAxis(system, data, "x"),
        y |-> GetAxis(system, data, "y"),
        z |-> GetAxis(system, data, "z"),
        r |-> GetAxis(system, data, "r"),
        t |-> GetAxis(system, data, "t")]

\* read every view of a
ReadAxes ==
    /\ aop.op # "read"
    /\ aop' = [NoArrayOp EXCEPT !.op = "read", !.self = 1, !.out = ReadViews(1)]
    /\ UNCHANGED <<call, heapvars, nwrites, viewvars>>

NextArr ==
    \/ AssignAxis
    \/ ReadAxes

\* a as above; b plays no part in an assignment
InitAssign ==
    /\ InitArr
    /\ System(2) = "Cartesian"

SpecArr == InitAssign /\ [][NextArr]_vars

---------------------------------------------------------------------------
(* Properties of assignment, checked under SpecArr *)

\* C13: a successful write to an axis native to the array's system changes
\* exactly the column that stores it and leaves the other two columns as
\* they were; reading the axis afterwards returns the values written
C13_NativeWrite ==
    (aop.op = "set" /\ aop.err = "" /\ aop.axis \in NativeAxes(System(aop.self))) =>
        /\ Len(Data(aop.self)) = Len(aop.before)
        /\ \A k \in DOMAIN aop.before : \A j \in 1..3 :
               Data(aop.self)[k][j] =
                   IF j = StoredColumn(System(aop.self), aop.axis)
                   THEN aop.arg.flat[k] ELSE aop.before[k][j]
        /\ GetAxis(System(aop.self), Data(aop.self), aop.axis) = aop.arg.flat

\* r of a two-row Cylindrical array has been overwritten
C13_Witness ==
    /\ aop.op = "set"
    /\ aop.err = ""
    /\ System(aop.self) = "Cylindrical"
    /\ aop.axis = "r"
    /\ aop.before = <<<<3 * Quarter, 1, 2>>, <<0, 0, 1>>>>
    /\ Data(aop.self) = <<<<3 * Quarter, 1, -1>>, <<0, 0, -2>>>>

\* C14: on a Cartesian array set_r(rs) puts (rs*cos t, rs*sin t) in (x, y)
\* with t = atan2(y, x) taken before the write, set_t(ts) puts
\* (r*cos ts, r*sin ts) with r = sqrt(x^2 + y^2) taken before the write, and
\* both leave z; on a Cylindrical array set_x and set_y leave the z column
C14_ForeignWrite ==
    (aop.op = "set" /\ aop.err = "") =>
        /\ (System(aop.self) = "Cartesian" /\ aop.axis = "r") =>
               \A k \in DOMAIN aop.before :
                   LET t == Arctan2(aop.before[k][2], aop.before[k][1])
                       rs == aop.arg.flat
                   IN Data(aop.self)[k] =
                          <<rs[k] * Cos(t), rs[k] * Sin(t), aop.before[k][3]>>
        /\ (System(aop.self) = "Cartesian" /\ aop.axis = "t") =>
               \A k \in DOMAIN aop.before :
                   LET r == Hypot(aop.before[k][1], aop.before[k][2])
                       ts == aop.arg.flat
                   IN Data(aop.self)[k] =
                          <<r * Cos(ts[k]), r * Sin(ts[k]), aop.before[k][3]>>
        /\ (System(aop.self) = "Cylindrical" /\ aop.axis \in {"x", "y"}) =>
               /\ Len(Data(aop.self)) = Len(aop.before)
               /\ \A k \in DOMAIN aop.before :
                      Data(aop.self)[k][2] = aop.before[k][2]

\* t of a Cartesian array has been set: (0, -2, 1) turned to angle pi/2
C14_Witness ==
    /\ aop.op = "set"
    /\ aop.err = ""
    /\ System(aop.self) = "Cartesian"
    /\ aop.axis = "t"
    /\ Len(aop.before) >= 1
    /\ aop.before[1] = <<0, -2, 1>>
    /\ Data(aop.self)[1] = <<0, 2, 1>>

\* C15: whatever writes came before, the cartesian and cylindrical views
\* and the five axes that are read are the conversion of what the buffer
\* holds now
C15_ReadsCurrent ==
    aop.op = "read" =>
        LET system == System(aop.self)
            d == Data(aop.self)
            o == aop.out
        IN /\ Len(o.cartesian) = Len(d)
           /\ Len(o.cylindrical) = Len(d)
           /\ \A k \in DOMAIN d :
                  /\ system = "Cartesian" =>
                         /\ o.cartesian[k] = d[k]
                         /\ o.cylindrical[k][2] = d[k][3]
                         /\ o.cylindrical[k][3] >= 0
                         /\ o.cylindrical[k][3] * Cos(o.cylindrical[k][1]) = d[k][1]
                         /\ o.cylindrical[k][3] * Sin(o.cylindrical[k][1]) = d[k][2]
                  /\ system = "Cylindrical" =>
                         /\ o.cylindrical[k] = d[k]
                         /\ o.cartesian[k] =
                                <<d[k][3] * Cos(d[k][1]), d[k][3] * Sin(d[k][1]), d[k][2]>>
                  /\ o.x[k] = o.cartesian[k][1]
                  /\ o.y[k] = o.cartesian[k][2]
                  /\ o.z[k] = o.cartesian[k][3]
                  /\ o.r[k] = o.cylindrical[k][3]
                  /\ o.t[k] = o.cylindrical[k][1]

\* a read after two writes that moved a Cylindrical row off its first place
C15_Witness ==
    /\ aop.op = "read"
    /\ nwrites >= 2
    /\ System(aop.self) = "Cylindrical"
    /\ Len(Data(aop.self)) >= 1
    /\ Data(aop.self)[1] = <<2 * Quarter, 1, 1>>
    /\ aop.out.x[1] = -1

\* C16: an array that is not one-dimensional with as many elements as the
\* array has rows is refused with an error, and a refused assignment leaves
\* the buffer as it was
C16_ShapeChecked ==
    aop.op = "set" =>
        /\ aop.arg.shape # <<Len(aop.before)>> => aop.err # ""
        /\ aop.err # "" => Data(aop.self) = aop.before

\* a vector one element too long was refused after an earlier write
C16_Witness ==
    /\ aop.op = "set"
    /\ aop.err = "TypeError"
    /\ nwrites >= 1
    /\ Len(aop.before) >= 1
    /\ aop.arg.shape = <<Len(aop.before) + 1>>
    /\ Data(aop.self) = aop.before

---------------------------------------------------------------------------
(* Construction from arbitrary inputs, formatting, the JSON format and the
   WorldView: vertices.py, faces.py, io.py, views.py *)

\* the values handed to the constructors: numpy arrays with their shape and
\* element type (the elements of a string array are the code points of its
\* one-character strings), and values that are not numpy arrays
NdArray(shape, dtype, rows) ==
    [type |-> "ndarray", shape |-> shape, dtype |-> dtype, rows |-> rows]
PyList(rows) == [type |-> "list", shape |-> <<>>, dtype |-> "object", rows |-> rows]
\* a str, as the code points of its characters
PyStr(text) == [type |-> "str", shape |-> <<>>, dtype |-> "object", rows |-> text]

\* np.array(rows): a list of equally long rows of floats
FloatArray(rows, cols) == NdArray(<<Len(rows), cols>>, "float64", rows)

\* np.array(rows): a list of equally long rows of integers
IntArray(rows, cols) == NdArray(<<Len(rows), cols>>, "int64", rows)

\* the element types numpy counts as numbers, and as integers
NumericDtypes == {"float64", "int64"}
IntegerDtypes == {"int64"}

Systems == {"Cartesian", "Cylindrical"}

\* inputs of Cartesian(...) and Cylindrical(...)
VertexInputs ==
    {FloatArray(rows, 3) : rows \in RowSeqs(CartesianRows)}
        \cup {FloatArray(rows, 3) : rows \in RowSeqs(CylindricalRows)}
        \cup {PyStr(<<115, 116, 114, 105, 110, 103>>),
              PyList(<<<<1, 0, 0>>>>),
              IntArray(<<<<1, 0, 0>>>>, 3),
              NdArray(<<3>>, "float64", <<1, 0, 0>>),
              NdArray(<<1, 1, 2>>, "int64", <<<<<<2, 3>>>>>>),
              FloatArray(<<<<1, 0>>>>, 2),
              FloatArray(<<<<1, 0, 0, 2>>>>, 4),
              NdArray(<<1, 3>>, "str", <<<<97, 98, 99>>>>)}

\* VertexArray.__init__: the exception raised, "" when there is none
VertexArrayInitError(data) ==
    IF data.type # "ndarray" THEN "TypeError"
    ELSE IF Len(data.shape) # 2 THEN "TypeError"
    ELSE IF data.shape[2] # 3 THEN "TypeError"
    ELSE ""

\* Tris.num_sides
TriSides == 3

FaceKinds == {"Quads", "Tris"}

\* num_sides of the two face classes
NumSides(kind) == IF kind = "Quads" THEN QuadSides ELSE TriSides

\* inputs of Quads(...) and Tris(...)
FaceInputs ==
    {IntArray(rows, 4) : rows \in RowSeqs({<<1, 2, 4, 3>>, <<2, 1, 3, 4>>})}
        \cup {IntArray(rows, 3) : rows \in RowSeqs({<<1, 2, 3>>, <<3, 2, 1>>})}
        \cup {PyList(<<<<1, 2, 3, 4>>>>),
              NdArray(<<4>>, "int64", <<1, 2, 3, 4>>),
              NdArray(<<1, 1, 4>>, "int64", <<<<<<1, 2, 3, 4>>>>>>),
              IntArray(<<<<1, 2, 3, 4, 5>>>>, 5),
              FloatArray(<<<<1, 2, 3, 4>>>>, 4),
              FloatArray(<<<<1, 2, 3>>>>, 3)}

\* shape and element type of a numpy array, as the checks of FaceArray read them
AsNd(data) ==
    [ndim |-> Len(data.shape),
     cols |-> IF Len(data.shape) >= 2 THEN data.shape[2] ELSE 0,
     integer |-> data.dtype \in IntegerDtypes,
     rows |-> data.rows]

\* FaceArray.__init__: the exception raised, "" when there is none
FaceArrayInitError(data, num_sides) ==
    IF data.type # "ndarray" THEN "TypeError"
    ELSE IF ~FaceArrayInitOk(AsNd(data), num_sides) THEN "TypeError"
    ELSE ""

\* nothing has been constructed: each run makes one object and works on it
NoObjects ==
    /\ arrays = <<>>
    /\ facearrs = <<>>
    /\ meshes = <<>>
    /\ views = <<>>

\* Cartesian(data) or Cylindrical(data)
NewVertexArray ==
    \E system \in Systems, data \in VertexInputs :
        /\ NoObjects
        /\ LET err == VertexArrayInitError(data)
           IN /\ call' = [fn |-> "VertexArray", kind |-> system, arg |-> data,
                          err |-> err, before |-> Len(arrays)]
              /\ IF err = ""
                 THEN /\ bufs' = Append(bufs, data.rows)
                      /\ arrays' = Append(arrays, [system |-> system, data |-> Len(bufs) + 1,
                                                    dtype |-> data.dtype])
                 ELSE UNCHANGED <<bufs, arrays>>
        /\ UNCHANGED <<facearrs, meshes, parent, last, arrvars, viewvars>>

\* Quads(data) or Tris(data)
NewFaceArray ==
    \E kind \in FaceKinds, data \in FaceInputs :
        /\ NoObjects
        /\ LET err == FaceArrayInitError(data, NumSides(kind))
           IN /\ call' = [fn |-> "FaceArray", kind |-> kind, arg |-> data,
                          err |-> err, before |-> Len(facearrs)]
              /\ IF err = ""
                 THEN facearrs' = Append(facearrs, [kind |-> kind, data |-> data.rows])
                 ELSE UNCHANGED facearrs
        /\ UNCHANGED <<bufs, arrays, meshes, parent, last, arrvars, viewvars>>

\* a str is the sequence of its characters; the text that str.format makes
\* of a number (its digits, sign and point, with a point exactly for a float)
\* is kept as one item that carries the number
Chr(c) == [num |-> FALSE, ch |-> c, val |-> 0, float |-> FALSE]
NumText(v, float) == [num |-> TRUE, ch |-> "", val |-> v, float |-> float]

\* the str with the characters cs
Text(cs) == [k \in DOMAIN cs |-> Chr(cs[k])]

\* a format string is its literal stretches and its replacement fields:
\* "{}" is Auto, "{i}" is Field(i)
Lit(cs) == [field |-> FALSE, ix |-> 0, text |-> Text(cs)]
Field(i) == [field |-> TRUE, ix |-> i, text |-> <<>>]
Auto == Field(-1)

\* str.format(*args): literal text is copied, "{i}" is replaced by the text
\* of args[i], and the k-th "{}" by the text of args[k]
RECURSIVE FormatFrom(_, _, _)
FormatFrom(parts, args, auto) ==
    IF parts = <<>> THEN <<>>
    ELSE LET part == Head(parts)
         IN IF ~part.field
            THEN part.text \o FormatFrom(Tail(parts), args, auto)
            ELSE IF part.ix < 0
                 THEN <<args[auto + 1]>> \o FormatFrom(Tail(parts), args, auto + 1)
                 ELSE <<args[part.ix + 1]>> \o FormatFrom(Tail(parts), args, auto)

StrFormat(fmtstr, args) == FormatFrom(fmtstr, args, 0)

\* the strs of a sequence one after the other
RECURSIVE Concat(_)
Concat(strs) == IF strs = <<>> THEN <<>> ELSE Head(strs) \o Concat(Tail(strs))

\* sep.join(strs) with the separator after every item
StrJoin_trailing(sep, strs) == Concat([k \in DOMAIN strs |-> strs[k] \o sep])

\* sep.join(strs): the separator follows every item but the last
StrJoin(sep, strs) ==
    Concat([k \in DOMAIN strs |-> IF k < Len(strs) THEN strs[k] \o sep ELSE strs[k]])

\* the elements of a row, as str.format renders them
Elements(row, float) == [k \in DOMAIN row |-> NumText(row[k], float)]

\* FaceArray.fmt and the body of VertexArray.fmt, over the rows iterated
FmtRows(rows, float, fmtstr, prefix, suffix, sep) ==
    prefix \o StrJoin(sep, [k \in DOMAIN rows |-> StrFormat(fmtstr, Elements(rows[k], float))])
           \o suffix

\* VertexArray.fmt: the rows of self.cartesian are rendered; the cartesian
\* view of a Cylindrical array is a computed float array
VertexArrayFmt(system, data, dtype, fmtstr, prefix, suffix, sep) ==
    FmtRows(cartesian(system, data), dtype = "float64" \/ system = "Cylindrical",
            fmtstr, prefix, suffix, sep)

\* "[" + ", ".join("{}" for _ in range(num_sides)) + "]"
JsonRowTemplate(num_sides) ==
    <<Lit(<<"[">>)>>
        \o StrJoin(<<Lit(<<",", " ">>)>>, [k \in 1..num_sides |-> <<Auto>>])
        \o <<Lit(<<"]">>)>>

\* format strings for the rows of a vertex array:
\* '{} {} {}', '{1} {2} {0}', 'v {} {} {}' and '[{}, {}, {}]'
VertexTemplates ==
    {<<Auto, Lit(<<" ">>), Auto, Lit(<<" ">>), Auto>>,
     <<Field(1), Lit(<<" ">>), Field(2), Lit(<<" ">>), Field(0)>>,
     <<Lit(<<"v", " ">>), Auto, Lit(<<" ">>), Auto, Lit(<<" ">>), Auto>>,
     JsonRowTemplate(3)}

\* format strings for the rows of a face array: the one of JsonFormat and
\* 'f {0}/{2}'
FaceTemplates(num_sides) ==
    {JsonRowTemplate(num_sides),
     <<Lit(<<"f", " ">>), Field(0), Lit(<<"/">>), Field(2)>>}

\* prefix, suffix and sep: the defaults of fmt, those of ObjFormat and those
\* of JsonFormat
FmtParams ==
    {[prefix |-> <<>>, suffix |-> <<>>, sep |-> Text(<<"\n">>)],
     [prefix |-> <<>>, suffix |-> Text(<<"\n">>), sep |-> Text(<<"\n">>)],
     [prefix |-> Text(<<"[">>), suffix |-> Text(<<"]">>), sep |-> Text(<<",", " ">>)]}

\* vs.fmt(fmtstr, prefix, suffix, sep) on the vertex array constructed
FmtVertices ==
    \E v \in DOMAIN arrays, fmtstr \in VertexTemplates, params \in FmtParams :
        /\ arrays[v].dtype \in NumericDtypes
        /\ ExactData(System(v), Data(v))
        /\ call' = [fn |-> "fmt", of |-> "vertices", self |-> v, fmtstr |-> fmtstr,
                    params |-> params, before |-> bufs,
                    out |-> VertexArrayFmt(System(v), Data(v), arrays[v].dtype, fmtstr,
                                           params.prefix, params.suffix, params.sep)]
        /\ UNCHANGED <<heapvars, arrvars, viewvars>>

\* fs.fmt(fmtstr, prefix, suffix, sep) on the face array constructed
FmtFaces ==
    \E f \in DOMAIN facearrs, params \in FmtParams :
        \E fmtstr \in FaceTemplates(NumSides(facearrs[f].kind)) :
            /\ call' = [fn |-> "fmt", of |-> "faces", self |-> f, fmtstr |-> fmtstr,
                        params |-> params, before |-> bufs,
                        out |-> FmtRows(facearrs[f].data, FALSE, fmtstr,
                                        params.prefix, params.suffix, params.sep)]
            /\ UNCHANGED <<heapvars, arrvars, viewvars>>

\* the values json.loads returns and a name can hold: a str (its text), a
\* number (its item of text), a list (its items), a dict (its keys and, in
\* the same order, their values), None, and the failure to decode
JValue(t, text, num, items, keys) ==
    [t |-> t, text |-> text, num |-> num, items |-> items, keys |-> keys]
JStr(text) == JValue("str", text, NumText(0, FALSE), <<>>, <<>>)
JNum(a) == JValue("num", <<>>, a, <<>>, <<>>)
JArr(items) == JValue("arr", <<>>, NumText(0, FALSE), items, <<>>)
JObj(keys, items) == JValue("obj", <<>>, NumText(0, FALSE), items, keys)
JNone == JValue("none", <<>>, NumText(0, FALSE), <<>>, <<>>)
JFail == JValue("fail", <<>>, NumText(0, FALSE), <<>>, <<>>)

\* what a step of the decoder returns: the value and the text left over
Parsed(val, rest) == [val |-> val, rest |-> rest]
Failed == Parsed(JFail, <<>>)

IsChr(a, c) == ~a.num /\ a.ch = c

Whitespace == {" ", "\n", "\t", "\r"}

\* control characters, which a JSON string may not hold unescaped
ControlChars == {"\n", "\t", "\r", "\f", "U+0008"}

\* the character an escape letter stands for
Unescape(c) ==
    CASE c = "n" -> "\n" [] c = "t" -> "\t" [] c = "r" -> "\r"
      [] c = "f" -> "\f" [] c = "b" -> "U+0008"

RECURSIVE SkipWs(_)
SkipWs(s) ==
    IF Len(s) > 0 /\ ~Head(s).num /\ Head(s).ch \in Whitespace
    THEN SkipWs(Tail(s))
    ELSE s

\* json: the rest of a string after its opening quote, up to the first
\* quote that is not escaped
RECURSIVE ScanString(_, _)
ScanString(s, acc) ==
    IF Len(s) = 0 THEN Failed
    ELSE LET a == Head(s)
         IN IF a.num THEN ScanString(Tail(s), Append(acc, a))
            ELSE IF a.ch = "\"" THEN Parsed(JStr(acc), Tail(s))
            ELSE IF a.ch = "\\"
                 THEN IF Len(s) < 2 \/ s[2].num THEN Failed
                      ELSE IF s[2].ch \in {"\"", "\\", "/"}
                           THEN ScanString(Tail(Tail(s)), Append(acc, s[2]))
                      ELSE IF s[2].ch \in {"b", "f", "n", "r", "t"}
                           THEN ScanString(Tail(Tail(s)), Append(acc, Chr(Unescape(s[2].ch))))
                      ELSE Failed
            ELSE IF a.ch \in ControlChars THEN Failed
            ELSE ScanString(Tail(s), Append(acc, a))

\* json: a value, the items of a list after "[", the members of a dict
\* after "{"
RECURSIVE ParseValue(_)
RECURSIVE ParseItems(_, _)
RECURSIVE ParseMembers(_, _, _)
ParseValue(text) ==
    LET s == SkipWs(text)
    IN IF Len(s) = 0 THEN Failed
       ELSE IF Head(s).num THEN Parsed(JNum(Head(s)), Tail(s))
       ELSE IF Head(s).ch = "\"" THEN ScanString(Tail(s), <<>>)
       ELSE IF Head(s).ch = "["
            THEN LET r == SkipWs(Tail(s))
                 IN IF Len(r) > 0 /\ IsChr(r[1], "]")
                    THEN Parsed(JArr(<<>>), Tail(r))
                    ELSE ParseItems(r, <<>>)
       ELSE IF Head(s).ch = "{"
            THEN LET r == SkipWs(Tail(s))
                 IN IF Len(r) > 0 /\ IsChr(r[1], "}")
                    THEN Parsed(JObj(<<>>, <<>>), Tail(r))
                    ELSE ParseMembers(r, <<>>, <<>>)
       ELSE Failed

ParseItems(s, acc) ==
    LET p == ParseValue(s)
        r == SkipWs(p.rest)
    IN IF p.val.t = "fail" \/ Len(r) = 0 THEN Failed
       ELSE IF IsChr(r[1], ",") THEN ParseItems(Tail(r), Append(acc, p.val))
       ELSE IF IsChr(r[1], "]") THEN Parsed(JArr(Append(acc, p.val)), Tail(r))
       ELSE Failed

ParseMembers(s, keys, items) ==
    IF Len(s) = 0 THEN Failed
    ELSE IF ~IsChr(s[1], "\"") THEN Failed
    ELSE LET k == ScanString(Tail(s), <<>>)
             r == SkipWs(k.rest)
         IN IF k.val.t = "fail" \/ Len(r) = 0 THEN Failed
            ELSE IF ~IsChr(r[1], ":") THEN Failed
            ELSE LET p == ParseValue(Tail(r))
                     q == SkipWs(p.rest)
                 IN IF p.val.t = "fail" \/ Len(q) = 0 THEN Failed
                    ELSE IF IsChr(q[1], ",")
                         THEN ParseMembers(SkipWs(Tail(q)), Append(keys, k.val.text),
                                           Append(items, p.val))
                    ELSE IF IsChr(q[1], "}")
                         THEN Parsed(JObj(Append(keys, k.val.text), Append(items, p.val)),
                                     Tail(q))
                    ELSE Failed

\* json.loads(data): one value and nothing but whitespace after it
JsonLoads(data) ==
    LET p == ParseValue(data)
    IN IF p.val.t = "fail" THEN JFail
       ELSE IF Len(SkipWs(p.rest)) > 0 THEN JFail
       ELSE p.val

\* key in json_data, for the dict or the list that json_data is
Contains(json_data, key) ==
    IF json_data.t = "obj" THEN \E i \in DOMAIN json_data.keys : json_data.keys[i] = key
    ELSE \E i \in DOMAIN json_data.items :
             json_data.items[i].t = "str" /\ json_data.items[i].text = key

\* json_data[key]: of the members with this key the last one counts
Lookup(json_data, key) ==
    LET at == {i \in DOMAIN json_data.keys : json_data.keys[i] = key}
    IN json_data.items[CHOOSE i \in at : \A j \in at : j <= i]

\* np.array(value) for a list of equally long lists of numbers, a list of
\* numbers, the empty list (a float array of shape (0,)) and a value that
\* is not a list (an array without axes)
NpArray(value) ==
    IF value.t # "arr" THEN NdArray(<<>>, "object", <<>>)
    ELSE IF value.items = <<>> THEN NdArray(<<0>>, "float64", <<>>)
    ELSE IF \A i \in DOMAIN value.items : value.items[i].t = "num"
         THEN NdArray(<<Len(value.items)>>,
                      IF \E i \in DOMAIN value.items : value.items[i].num.float
                      THEN "float64" ELSE "int64",
                      [i \in DOMAIN value.items |-> value.items[i].num.val])
    ELSE IF /\ \A i \in DOMAIN value.items :
                  /\ value.items[i].t = "arr"
                  /\ Len(value.items[i].items) = Len(value.items[1].items)
                  /\ \A j \in DOMAIN value.items[i].items : value.items[i].items[j].t = "num"
         THEN NdArray(<<Len(value.items), Len(value.items[1].items)>>,
                      IF \/ Len(value.items[1].items) = 0
                         \/ \E i \in DOMAIN value.items : \E j \in DOMAIN value.items[i].items :
                                value.items[i].items[j].num.float
                      THEN "float64" ELSE "int64",
                      [i \in DOMAIN value.items |->
                          [j \in DOMAIN value.items[i].items |-> value.items[i].items[j].num.val]])
    ELSE NdArray(<<Len(value.items)>>, "object", <<>>)

\* the keys of a record of JsonFormat
NameKey == Text(<<"n", "a", "m", "e">>)
VerticesKey == Text(<<"v", "e", "r", "t", "i", "c", "e", "s">>)
FacesKey == Text(<<"f", "a", "c", "e", "s">>)

\* "<json_mesh>"
JsonMeshName == Text(<<"<", "j", "s", "o", "n", "_", "m", "e", "s", "h", ">">>)

\* "Geometry"
DefaultName == Text(<<"G", "e", "o", "m", "e", "t", "r", "y">>)

\* the outcome of a load: the exception and where it was raised, and the
\* name and the arrays the Mesh is made of
Loaded(err, why, name, verts, faces) ==
    [err |-> err, why |-> why, name |-> name, verts |-> verts, faces |-> faces]
NotLoaded(err, why) == Loaded(err, why, JNone, NdArray(<<>>, "object", <<>>), NdArray(<<>>, "object", <<>>))

\* JsonFormat._load
JsonLoad(data) ==
    LET json_data == JsonLoads(data)
    IN IF json_data.t = "fail" THEN NotLoaded("JSONDecodeError", "json.loads")
       ELSE IF ~Contains(json_data, VerticesKey) THEN NotLoaded("TypeError", "Missing expected field: vertices")
       ELSE IF ~Contains(json_data, FacesKey) THEN NotLoaded("TypeError", "Missig expected field: faces")
       ELSE LET name == IF ~Contains(json_data, NameKey) THEN JStr(JsonMeshName)
                        ELSE Lookup(json_data, NameKey)
                verts == NpArray(Lookup(json_data, VerticesKey))
                faces == NpArray(Lookup(json_data, FacesKey))
            IN IF VertexArrayInitError(verts) # ""
               THEN NotLoaded(VertexArrayInitError(verts), "Cartesian")
               ELSE IF FaceArrayInitError(faces, QuadSides) # ""
               THEN NotLoaded(FaceArrayInitError(faces, QuadSides), "Quads")
               ELSE Loaded("", "", name, verts, faces)

\* Geometry.name
GeometryName(name) == IF name.t = "none" THEN JStr(DefaultName) ELSE name

\* JsonFormat._dump_vertices
JsonDumpVertices(system, data, dtype) ==
    VertexArrayFmt(system, data, dtype, JsonRowTemplate(3),
                   Text(<<"[">>), Text(<<"]">>), Text(<<",", " ">>))

\* JsonFormat._dump_faces
JsonDumpFaces(kind, rows) ==
    FmtRows(rows, FALSE, JsonRowTemplate(NumSides(kind)),
            Text(<<"[">>), Text(<<"]">>), Text(<<",", " ">>))

\* JsonFormat._dump: '{"name": $name, "vertices": $vertices, "faces": $faces}'
\* with '"{}"'.format(geometry.name) for $name
JsonDump(m) ==
    Text(<<"{", "\"">>) \o NameKey \o Text(<<"\"", ":", " ">>)
        \o Text(<<"\"">>) \o GeometryName(meshes[m].name).text \o Text(<<"\"">>)
        \o Text(<<",", " ", "\"">>) \o VerticesKey \o Text(<<"\"", ":", " ">>)
        \o JsonDumpVertices(System(meshes[m].verts), Data(meshes[m].verts),
                            arrays[meshes[m].verts].dtype)
        \o Text(<<",", " ", "\"">>) \o FacesKey \o Text(<<"\"", ":", " ">>)
        \o JsonDumpFaces(facearrs[meshes[m].faces].kind, facearrs[meshes[m].faces].data)
        \o Text(<<"}">>)

\* the rows of the meshes handed to JsonFormat: points of the x axis or
\* quarter-turn angles, and faces over consecutive indices
MeshVertexRows(system, n) ==
    IF system = "Cartesian" THEN [k \in 1..n |-> <<k, 0, k - 1>>]
    ELSE [k \in 1..n |-> <<k * Quarter, k, 1>>]
MeshFaceRows(kind, m) ==
    IF kind = "Quads" THEN [k \in 1..m |-> <<k, k + 1, k + 3, k + 2>>]
    ELSE [k \in 1..m |-> <<k, k + 1, k + 2>>]

\* names given to a Mesh: none, 'plane', 'a"b', a name ending in a
\* backslash, and a name of two lines
GeometryNames ==
    {JNone,
     JStr(Text(<<"p", "l", "a", "n", "e">>)),
     JStr(Text(<<"a", "\"", "b">>)),
     JStr(Text(<<"a", "\\">>)),
     JStr(Text(<<"a", "\n", "b">>))}

\* allocate a mesh over a fresh vertex array and a fresh face array made of
\* the numpy arrays verts and faces
AllocGeometry(system, verts, kind, faces, name) ==
    /\ bufs' = Append(bufs, verts.rows)
    /\ arrays' = Append(arrays, [system |-> system, data |-> Len(bufs) + 1,
                                  dtype |-> verts.dtype])
    /\ facearrs' = Append(facearrs, [kind |-> kind, data |-> faces.rows])
    /\ meshes' = Append(meshes, [verts |-> Len(arrays) + 1,
                                 faces |-> Len(facearrs) + 1, name |-> name])
    /\ parent' = Append(parent, 0)

\* the records handed to JsonFormat.loads as text: with or without a name,
\* with or without vertices, with or without faces of 4 or of 3 indices
NoRecord ==
    [has_name |-> FALSE, name |-> <<>>, has_vertices |-> FALSE, vertices |-> <<>>,
     has_faces |-> FALSE, faces |-> <<>>, sides |-> 0]
LoadRecords ==
    {[has_name |-> hn, name |-> IF hn THEN Text(<<"a">>) ELSE <<>>,
      has_vertices |-> n > 0, vertices |-> MeshVertexRows("Cartesian", n),
      has_faces |-> kind # None,
      faces |-> IF kind = None THEN <<>> ELSE MeshFaceRows(kind, 1),
      sides |-> IF kind = None THEN 0 ELSE NumSides(kind)] :
        hn \in BOOLEAN, n \in 0..2, kind \in FaceKinds \cup {None}}

\* '"key": value'
Member(key, value) == Text(<<"\"">>) \o key \o Text(<<"\"", ":", " ">>) \o value

\* the JSON text of a record
RecordText(rec) ==
    LET name == IF rec.has_name
                THEN <<Member(NameKey, Text(<<"\"">>) \o rec.name \o Text(<<"\"">>))>>
                ELSE <<>>
        verts == IF rec.has_vertices
                 THEN <<Member(VerticesKey, JsonDumpVertices("Cartesian", rec.vertices, "float64"))>>
                 ELSE <<>>
        faces == IF rec.has_faces
                 THEN <<Member(FacesKey,
                               FmtRows(rec.faces, FALSE, JsonRowTemplate(rec.sides),
                                       Text(<<"[">>), Text(<<"]">>), Text(<<",", " ">>)))>>
                 ELSE <<>>
    IN Text(<<"{">>) \o StrJoin(Text(<<",", " ">>), name \o verts \o faces) \o Text(<<"}">>)

\* Mesh(verts=Cartesian(...) or Cylindrical(...), faces=Quads(...) or
\* Tris(...), name=name)
NewMesh ==
    \E system \in Systems, n \in 0..MaxRows, kind \in FaceKinds, m \in 0..MaxRows,
       name \in GeometryNames :
        /\ NoObjects
        /\ LET verts == FloatArray(MeshVertexRows(system, n), 3)
               faces == IntArray(MeshFaceRows(kind, m), NumSides(kind))
           IN /\ VertexArrayInitError(verts) = ""
              /\ FaceArrayInitError(faces, NumSides(kind)) = ""
              /\ AllocGeometry(system, verts, kind, faces, name)
        /\ call' = [fn |-> "Mesh", made |-> Len(meshes) + 1]
        /\ UNCHANGED <<last, arrvars, viewvars>>

\* JsonFormat().dumps(mesh)
Dumps ==
    \E m \in DOMAIN meshes :
        /\ arrays[meshes[m].verts].dtype \in NumericDtypes
        /\ ExactData(System(meshes[m].verts), Data(meshes[m].verts))
        /\ call' = [fn |-> "dumps", self |-> m, out |-> JsonDump(m)]
        /\ UNCHANGED <<heapvars, arrvars, viewvars>>

\* what loads is handed: the text just dumped, or the text of a record
LoadSources ==
    IF call.fn = "dumps" THEN {[text |-> call.out, rec |-> NoRecord, from |-> call.self]}
    ELSE IF NoObjects
         THEN {[text |-> RecordText(rec), rec |-> rec, from |-> 0] : rec \in LoadRecords}
    ELSE {}

\* JsonFormat().loads(text)
Loads ==
    \E src \in LoadSources :
        /\ Len(meshes) <= 1
        /\ LET res == JsonLoad(src.text)
           IN /\ call' = [fn |-> "loads", arg |-> src.text, rec |-> src.rec, from |-> src.from,
                          err |-> res.err, why |-> res.why,
                          made |-> IF res.err = "" THEN Len(meshes) + 1 ELSE 0]
              /\ IF res.err = ""
                 THEN AllocGeometry("Cartesian", res.verts, "Quads", res.faces, res.name)
                 ELSE UNCHANGED <<bufs, arrays, facearrs, meshes, parent>>
        /\ UNCHANGED <<last, arrvars, viewvars>>

\* the value None, among the values handed to a constructor
PyNone == [type |-> "NoneType", shape |-> <<>>, dtype |-> "object", rows |-> <<>>]

\* np.array([0., 0., 0.])
Origin == NdArray(<<3>>, "float64", <<0, 0, 0>>)

\* values assigned to WorldView.position
PositionInputs ==
    {NdArray(<<3>>, "float64", <<1, 2, 3>>),
     NdArray(<<4>>, "float64", <<1, 2, 3, 4>>),
     NdArray(<<2>>, "float64", <<1, 2>>),
     NdArray(<<3, 3>>, "int64", <<<<1, 0, 0>>, <<0, 1, 0>>, <<0, 0, 1>>>>),
     NdArray(<<1, 3>>, "float64", <<<<1, 2, 3>>>>),
     NdArray(<<2, 2>>, "int64", <<<<1, 0>>, <<0, 1>>>>),
     NdArray(<<>>, "float64", <<>>),
     PyList(<<1, 2, 3>>)}

\* WorldView.position setter: the exception raised, "" when there is none;
\* shape[0] of an array without axes raises IndexError
PositionError(value) ==
    IF value.type # "ndarray" THEN "TypeError"
    ELSE IF Len(value.shape) # 1
         THEN IF Len(value.shape) = 0 THEN "IndexError"
              ELSE IF value.shape[1] # 3 THEN "TypeError" ELSE ""
    ELSE ""

ViewNames == {None, "view"}

\* WorldView(geometry=None, position, name): the geometry setter accepts
\* None, the position goes through the position setter, the name through the
\* name setter of Geometry
NewWorldView ==
    \E position \in PositionInputs \cup {PyNone}, name \in ViewNames :
        /\ NoObjects
        /\ LET value == IF position = PyNone THEN Origin ELSE position
               err == PositionError(value)
           IN /\ call' = [fn |-> "WorldView", view |-> Len(views) + 1, arg |-> position,
                          err |-> err, prev |-> PyNone, before |-> Len(views)]
              /\ IF err = ""
                 THEN views' = Append(views,
                                  [geometry |-> None, position |-> value,
                                   name |-> IF name = None THEN "WorldView:" ELSE name])
                 ELSE UNCHANGED views
        /\ UNCHANGED <<heapvars, arrvars>>

\* view.position = value
SetPosition ==
    \E v \in DOMAIN views, value \in PositionInputs :
        LET err == PositionError(value)
        IN /\ call' = [fn |-> "set_position", view |-> v, arg |-> value,
                       err |-> err, prev |-> views[v].position, before |-> Len(views)]
           /\ IF err = ""
              THEN views' = [views EXCEPT ![v].position = value]
              ELSE UNCHANGED views
           /\ UNCHANGED <<heapvars, arrvars>>

NextIO ==
    \/ NewVertexArray
    \/ NewFaceArray
    \/ FmtVertices
    \/ FmtFaces
    \/ NewWorldView
    \/ SetPosition
    \/ NewMesh
    \/ Dumps
    \/ Loads

SpecIO == Init /\ [][NextIO]_vars

---------------------------------------------------------------------------
(* Properties of construction, formatting, the JSON format and the WorldView,
   checked under SpecIO *)

\* C22: constructing a Cartesian or Cylindrical array succeeds if and only if
\* the input is a numpy array of rank 2 with exactly 3 columns and a numeric
\* element type; when it fails no array object is produced
C22_Construction ==
    call.fn = "VertexArray" =>
        /\ call.err = "" <=>
              /\ call.arg.type = "ndarray"
              /\ Len(call.arg.shape) = 2
              /\ call.arg.shape[2] = 3
              /\ call.arg.dtype \in NumericDtypes
        /\ call.err # "" => Len(arrays) = call.before
        /\ call.err = "" => Len(arrays) = call.before + 1

\* C23: constructing a Quads (arity 4) or a Tris (arity 3) succeeds if and
\* only if the input is a numpy array of rank 2 with exactly arity columns and
\* an integer element type; otherwise it raises and no face array is made
C23_FaceConstruction ==
    call.fn = "FaceArray" =>
        LET arity == IF call.kind = "Quads" THEN 4 ELSE 3
        IN /\ call.err = "" <=>
                 /\ call.arg.type = "ndarray"
                 /\ Len(call.arg.shape) = 2
                 /\ call.arg.shape[2] = arity
                 /\ call.arg.dtype = "int64"
           /\ call.err # "" => /\ call.err = "TypeError"
                               /\ Len(facearrs) = call.before
           /\ call.err = "" =>
                 /\ Len(facearrs) = call.before + 1
                 /\ facearrs[Len(facearrs)] = [kind |-> call.kind, data |-> call.arg.rows]

\* a Tris and a Quads have been made, and a float array has been refused
C23_Witness ==
    /\ call.fn = "FaceArray"
    /\ call.kind = "Tris"
    /\ call.err = ""
    /\ Len(call.arg.rows) = 2
    /\ Len(facearrs) = 1

\* C30: the position setter of a WorldView, also when the constructor calls
\* it, accepts a numpy array only when its shape is (3,); any other shape
\* raises TypeError and leaves the stored position as it was
C30_PositionShape ==
    call.fn \in {"WorldView", "set_position"} /\ call.arg.type = "ndarray" =>
        /\ call.err = "" <=> call.arg.shape = <<3>>
        /\ call.err # "" =>
              /\ call.err = "TypeError"
              /\ Len(views) = call.before
              /\ call.fn = "set_position" => views[call.view].position = call.prev
        /\ call.err = "" => views[call.view].position = call.arg

\* the items of a str that are numbers, in order
Numbers(str) == SelectSeq(str, LAMBDA a : a.num)

\* the numbers a format string picks from a row, in the order of its fields:
\* "{i}" picks element i, the j-th "{}" picks element j
Picked(fmtstr, row, float) ==
    LET fields == SelectSeq(fmtstr, LAMBDA part : part.field)
    IN [j \in DOMAIN fields |->
           NumText(row[(IF fields[j].ix < 0 THEN j - 1 ELSE fields[j].ix) + 1], float)]

\* how often sep occurs in str
Occurrences(sep, str) ==
    Cardinality({i \in 1..(Len(str) - Len(sep) + 1) : SubSeq(str, i, i + Len(sep) - 1) = sep})

\* the rows fmt iterates over, and whether their elements are floats
FmtSubject ==
    IF call.of = "vertices"
    THEN [rows |-> cartesian(System(call.self), Data(call.self)),
          float |-> arrays[call.self].dtype = "float64" \/ System(call.self) = "Cylindrical"]
    ELSE [rows |-> facearrs[call.self].data, float |-> FALSE]

C25_Load ==
    (call.fn = "loads" /\ call.from = 0) =>
        IF ~call.rec.has_vertices \/ ~call.rec.has_faces
        THEN /\ call.err = "TypeError"
             /\ call.why = IF ~call.rec.has_vertices
                           THEN "Missing expected field: vertices"
                           ELSE "Missig expected field: faces"
             /\ meshes = <<>>
        ELSE /\ call.err = ""
             /\ Len(meshes) = 1
             /\ meshes[1].name = JStr(IF call.rec.has_name THEN call.rec.name ELSE JsonMeshName)
             /\ Data(meshes[1].verts) = call.rec.vertices
             /\ facearrs[meshes[1].faces].data = call.rec.faces

\* C26: for every mesh g with vertices and faces, of 4 or of 3 indices, with
\* any name and any number of rows, loads(dumps(g)) succeeds and returns a
\* mesh with the name, the number of vertices and the number of faces of g
C26_RoundTrip ==
    (call.fn = "loads" /\ call.from > 0) =>
        /\ call.err = ""
        /\ call.made = Len(meshes)
        /\ call.made # call.from
        /\ GeometryName(meshes[call.made].name) = GeometryName(meshes[call.from].name)
        /\ Len(Data(meshes[call.made].verts)) = Len(Data(meshes[call.from].verts))
        /\ Len(facearrs[meshes[call.made].faces].data)
               = Len(facearrs[meshes[call.from].faces].data)

====
